---- MODULE Spec2Model ----
(***************************************************************************)
(* A model of go-zeek-broker-ws: the tagged-value codec (encoding.Data),   *)
(* the event envelope (encoding.DataMessage, encoding.Event) and the       *)
(* websocket client (client.Client).                                       *)
(*                                                                         *)
(* Text is modelled as a sequence of one-character strings, so that the    *)
(* string handling of the code (suffix tests, splitting, formatting) is    *)
(* computed and not assumed.  A JSON document is modelled by its parse     *)
(* tree; a Go value by a record [go |-> <dynamic type>, v |-> <value>].    *)
(* Machine integers are records [neg, dig] holding the decimal digits of   *)
(* the value, which keeps the 64-bit ranges of the code exact.             *)
(***************************************************************************)
EXTENDS Integers, Sequences, FiniteSets, TLC

VARIABLES
    \* ---- codec (encoding.Data) ----
    input,      \* what the run started from: a constructed Data or a wire object
    d,          \* the Data value in memory (receiver of MarshalJSON / decode)
    wire,       \* the JSON document last produced, or to be decoded
    res,        \* outcome of the last codec operation: "none","ok","err","panic"
    ops,        \* the operations applied so far, in order
    \* ---- event and envelope (encoding.Event, encoding.DataMessage) ----
    evt,        \* the Event being built by the caller
    calls,      \* the Event methods called so far, in order
    msg,        \* the DataMessage produced by Encode or filled by UnmarshalJSON
    body,       \* the envelope JSON handed to DataMessage.UnmarshalJSON
    got,        \* what the last Event, envelope or Client operation returned
    \* ---- client (client.Client) ----
    inbox,      \* the messages the server sends that were not read yet
    client,     \* the *Client NewClient returned, or nil
    sub,        \* the goroutine AsyncSubscription started, if any
    out,        \* the JSON text last produced: the bytes DataMessage.MarshalJSON
                \* returned, or the frame PublishEvent handed to the connection
    \* ---- connecting (client.NewClient, step by step) ----
    DefaultDialer,  \* the fields of *websocket.DefaultDialer, a package global
    dials,      \* the NewClient call of each caller: where it is, its arguments,
                \* the dial function its connection went through, its connection
    others      \* the dial functions other users of websocket.DefaultDialer
                \* have made their TLS connections with

vars == <<input, d, wire, res, ops, evt, calls, msg, body, got, inbox, client, sub, out,
          DefaultDialer, dials, others>>

----------------------------------------------------------------------------
(* Characters and digits *)

Digits == <<"0", "1", "2", "3", "4", "5", "6", "7", "8", "9">>

IsDigit(c) == \E i \in 1..10 : Digits[i] = c

DigitVal(c) == (CHOOSE i \in 1..10 : Digits[i] = c) - 1

DigitChar(n) == Digits[n + 1]

AllDigits(s) == \A i \in 1..Len(s) : IsDigit(s[i])

\* strings.HasSuffix
HasSuffix(s, suf) ==
    /\ Len(s) >= Len(suf)
    /\ SubSeq(s, Len(s) - Len(suf) + 1, Len(s)) = suf

\* the positions of character c in s
IndexesOf(s, c) == {i \in 1..Len(s) : s[i] = c}

Min(S) == CHOOSE x \in S : \A y \in S : x <= y

\* the digits of a string of digit characters
ToDigits(s) == [i \in 1..Len(s) |-> DigitVal(s[i])]

\* the digit characters of a sequence of digits
ToChars(ds) == [i \in 1..Len(ds) |-> DigitChar(ds[i])]

RECURSIVE StripZeros(_)
\* a digit sequence without its leading zeros (at least one digit is kept)
StripZeros(ds) ==
    IF Len(ds) > 1 /\ ds[1] = 0 THEN StripZeros(Tail(ds)) ELSE ds

\* ds <= es for digit sequences without leading zeros
DigitsLeq(ds, es) ==
    \/ Len(ds) < Len(es)
    \/ /\ Len(ds) = Len(es)
       /\ \/ ds = es
          \/ \E i \in 1..Len(ds) :
                /\ ds[i] < es[i]
                /\ \A j \in 1..(i - 1) : ds[j] = es[j]

\* a small natural number as digits (strconv.Itoa, fmt %d)
RECURSIVE NatDigits(_)
NatDigits(n) ==
    IF n < 10 THEN <<n>> ELSE Append(NatDigits(n \div 10), n % 10)

\* the value of a short digit sequence (it must fit a model integer)
RECURSIVE DigitsNat(_)
DigitsNat(ds) ==
    IF Len(ds) = 0 THEN 0
    ELSE 10 * DigitsNat(SubSeq(ds, 1, Len(ds) - 1)) + ds[Len(ds)]

\* a machine integer: sign and decimal digits, zero is never negative
MkInt(neg, ds) ==
    LET c == StripZeros(ds)
    IN  [neg |-> neg /\ c # <<0>>, dig |-> c]

IntOf(n) == IF n < 0 THEN MkInt(TRUE, NatDigits(-n)) ELSE MkInt(FALSE, NatDigits(n))

\* fmt %d / strconv.FormatInt of a machine integer
FormatInt(i) == (IF i.neg THEN <<"-">> ELSE <<>>) \o ToChars(i.dig)

----------------------------------------------------------------------------
(* Arithmetic on digit sequences *)

RECURSIVE MulCarry(_, _, _)
MulCarry(ds, k, carry) ==
    IF Len(ds) = 0
    THEN IF carry = 0 THEN <<>> ELSE NatDigits(carry)
    ELSE LET t == ds[Len(ds)] * k + carry
         IN  Append(MulCarry(SubSeq(ds, 1, Len(ds) - 1), k, t \div 10), t % 10)

\* ds * k for a small multiplier k
MulSmall(ds, k) == StripZeros(<<0>> \o MulCarry(ds, k, 0))

RECURSIVE AddCarry(_, _, _)
AddCarry(ds, es, carry) ==
    IF Len(ds) = 0 /\ Len(es) = 0
    THEN IF carry = 0 THEN <<>> ELSE <<carry>>
    ELSE LET a == IF Len(ds) = 0 THEN 0 ELSE ds[Len(ds)]
             b == IF Len(es) = 0 THEN 0 ELSE es[Len(es)]
             t == a + b + carry
             dr == IF Len(ds) = 0 THEN <<>> ELSE SubSeq(ds, 1, Len(ds) - 1)
             er == IF Len(es) = 0 THEN <<>> ELSE SubSeq(es, 1, Len(es) - 1)
         IN  Append(AddCarry(dr, er, t \div 10), t % 10)

\* ds + es
AddDigits(ds, es) == StripZeros(<<0>> \o AddCarry(ds, es, 0))

\* n zeros
Zeros(n) == [i \in 1..n |-> 0]

\* ds * 10^k for k >= 0, the integer part of ds / 10^(-k) for k < 0
ShiftDigits(ds, k) ==
    IF k >= 0 THEN StripZeros(ds \o Zeros(k))
    ELSE IF Len(ds) <= -k THEN <<0>>
    ELSE StripZeros(SubSeq(ds, 1, Len(ds) + k))

----------------------------------------------------------------------------
(* strconv *)

MaxUint64 == <<1,8,4,4,6,7,4,4,0,7,3,7,0,9,5,5,1,6,1,5>>

MaxUint16 == <<6,5,5,3,5>>

MaxInt64 == <<9,2,2,3,3,7,2,0,3,6,8,5,4,7,7,5,8,0,7>>

MinInt64Magnitude == <<9,2,2,3,3,7,2,0,3,6,8,5,4,7,7,5,8,0,8>>

ParseFail == [ok |-> FALSE]

\* a parse that clamps a value beyond the width to its largest value
ParseUintClamped(s, max) ==
    IF Len(s) = 0 \/ ~AllDigits(s) THEN ParseFail
    ELSE LET c == StripZeros(ToDigits(s))
         IN  [ok |-> TRUE, v |-> MkInt(FALSE, IF DigitsLeq(c, max) THEN c ELSE max)]

\* strconv.ParseUint(s, 10, bits): max is the largest value of that width
ParseUint(s, max) ==
    IF Len(s) = 0 \/ ~AllDigits(s) THEN ParseFail
    ELSE LET c == StripZeros(ToDigits(s))
         IN  IF DigitsLeq(c, max) THEN [ok |-> TRUE, v |-> MkInt(FALSE, c)]
             ELSE ParseFail

\* strconv.ParseInt(s, 10, 64)
ParseInt(s) ==
    IF Len(s) = 0 THEN ParseFail
    ELSE LET signed == s[1] \in {"+", "-"}
             neg == s[1] = "-"
             rest == IF signed THEN Tail(s) ELSE s
             un == ParseUint(rest, MaxUint64)
         IN  IF ~un.ok THEN ParseFail
             ELSE IF ~neg /\ ~DigitsLeq(un.v.dig, MaxInt64) THEN ParseFail
             ELSE IF neg /\ ~DigitsLeq(un.v.dig, MinInt64Magnitude) THEN ParseFail
             ELSE [ok |-> TRUE, v |-> MkInt(neg, un.v.dig)]

RECURSIVE StripTrailingZeros(_)
StripTrailingZeros(ds) ==
    IF Len(ds) > 0 /\ ds[Len(ds)] = 0
    THEN StripTrailingZeros(SubSeq(ds, 1, Len(ds) - 1))
    ELSE ds

\* strconv.ParseFloat(s, 64) for plain decimal numerals: [+-]digits[.digits].
\* A float64 is modelled by the decimal it stands for: sign, integer digits
\* and fraction digits without trailing zeros (the inputs keep within the
\* 15 significant digits a float64 holds exactly; exponents are not drawn).
ParseFloat(s) ==
    IF Len(s) = 0 THEN ParseFail
    ELSE LET signed == s[1] \in {"+", "-"}
             neg == s[1] = "-"
             rest == IF signed THEN Tail(s) ELSE s
             dots == IndexesOf(rest, ".")
             ipart == IF dots = {} THEN rest ELSE SubSeq(rest, 1, Min(dots) - 1)
             fpart == IF dots = {} THEN <<>> ELSE SubSeq(rest, Min(dots) + 1, Len(rest))
         IN  IF Cardinality(dots) > 1 \/ ~AllDigits(ipart) \/ ~AllDigits(fpart)
                \/ Len(ipart) + Len(fpart) = 0
             THEN ParseFail
             ELSE [ok |-> TRUE,
                   v |-> [neg |-> neg,
                          ip |-> StripZeros(<<0>> \o ToDigits(ipart)),
                          fp |-> StripTrailingZeros(ToDigits(fpart))]]

\* strconv.FormatFloat(f, 'f', -1, 64), as encoding/json prints a float64
FormatFloat(f) ==
    (IF f.neg THEN <<"-">> ELSE <<>>) \o ToChars(f.ip)
        \o (IF Len(f.fp) = 0 THEN <<>> ELSE <<".">> \o ToChars(f.fp))

RECURSIVE Split(_, _)
\* strings.Split(s, sep) for a one-character separator
Split(s, sep) ==
    LET at == IndexesOf(s, sep)
    IN  IF at = {} THEN <<s>>
        ELSE <<SubSeq(s, 1, Min(at) - 1)>> \o Split(SubSeq(s, Min(at) + 1, Len(s)), sep)

----------------------------------------------------------------------------
(* net: IPv4 addresses and networks.  The text forms drawn are IPv4 ones;  *)
(* an address is its four bytes.                                           *)

RECURSIVE Pow2(_)
Pow2(n) == IF n = 0 THEN 1 ELSE 2 * Pow2(n - 1)

\* one decimal field of a dotted quad: 1 to 3 digits, no leading zero, <= 255
IsIPv4Field(f) ==
    /\ Len(f) \in 1..3
    /\ AllDigits(f)
    /\ (Len(f) > 1 => f[1] # "0")
    /\ DigitsNat(ToDigits(f)) <= 255

\* net.ParseIP: the address, or nil (ok = FALSE)
ParseIP(s) ==
    LET parts == Split(s, ".")
    IN  IF Len(parts) = 4 /\ \A i \in 1..4 : IsIPv4Field(parts[i])
        THEN [ok |-> TRUE, v |-> [i \in 1..4 |-> DigitsNat(ToDigits(parts[i]))]]
        ELSE ParseFail

\* net.IP.String
IPString(ip) ==
    ToChars(NatDigits(ip[1])) \o <<".">> \o ToChars(NatDigits(ip[2])) \o <<".">>
        \o ToChars(NatDigits(ip[3])) \o <<".">> \o ToChars(NatDigits(ip[4]))

\* the number of mask bits that fall into byte i of a /n mask
MaskBits(n, i) ==
    LET k == n - 8 * (i - 1)
    IN  IF k < 0 THEN 0 ELSE IF k > 8 THEN 8 ELSE k

\* net.CIDRMask(n, 32)
CIDRMask(n) == [i \in 1..4 |-> 256 - Pow2(8 - MaskBits(n, i))]

\* net.IP.Mask for a CIDR mask of n bits
MaskIP(ip, n) ==
    [i \in 1..4 |-> (ip[i] \div Pow2(8 - MaskBits(n, i))) * Pow2(8 - MaskBits(n, i))]

\* net.ParseCIDR: the network (address masked, mask), or an error
ParseCIDR(s) ==
    LET at == IndexesOf(s, "/")
    IN  IF at = {} THEN ParseFail
        ELSE LET addr == SubSeq(s, 1, Min(at) - 1)
                 mask == SubSeq(s, Min(at) + 1, Len(s))
                 ip == ParseIP(addr)
                 md == StripZeros(<<0>> \o ToDigits(mask))
             IN  IF ~ip.ok \/ Len(mask) = 0 \/ ~AllDigits(mask) \/ Len(md) > 2
                 THEN ParseFail
                 ELSE IF DigitsNat(md) > 32 THEN ParseFail
                 ELSE [ok |-> TRUE,
                       v |-> [IP |-> MaskIP(ip.v, DigitsNat(md)),
                              Mask |-> CIDRMask(DigitsNat(md)),
                              bits |-> DigitsNat(md)]]

\* net.IPNet.String
IPNetString(n) == IPString(n.IP) \o <<"/">> \o ToChars(NatDigits(n.bits))

Base64Alphabet ==
    <<"A","B","C","D","E","F","G","H","I","J","K","L","M","N","O","P","Q","R","S",
      "T","U","V","W","X","Y","Z","a","b","c","d","e","f","g","h","i","j","k","l",
      "m","n","o","p","q","r","s","t","u","v","w","x","y","z","0","1","2","3","4",
      "5","6","7","8","9","+","/">>

\* base64.StdEncoding of four bytes, as encoding/json prints a []byte
Base64Of4(b) ==
    LET w == b[1] * 65536 + b[2] * 256 + b[3]
    IN  <<Base64Alphabet[(w \div 262144) + 1],
          Base64Alphabet[((w \div 4096) % 64) + 1],
          Base64Alphabet[((w \div 64) % 64) + 1],
          Base64Alphabet[(w % 64) + 1],
          Base64Alphabet[(b[4] \div 4) + 1],
          Base64Alphabet[((b[4] % 4) * 16) + 1],
          "=", "=">>

----------------------------------------------------------------------------
(* time: a time.Time is its wall clock reading (Y, Mo, D, h, mi, s, ns)    *)
(* in a zone that is off minutes east of UTC.                              *)

IsLeap(y) == (y % 4 = 0) /\ ((y % 100 # 0) \/ (y % 400 = 0))

DaysIn(mo, y) ==
    IF mo = 2 THEN (IF IsLeap(y) THEN 29 ELSE 28)
    ELSE IF mo \in {4, 6, 9, 11} THEN 30 ELSE 31

\* n printed in at least w digits
PadInt(n, w) ==
    LET ds == NatDigits(n)
    IN  ToChars(Zeros(IF Len(ds) < w THEN w - Len(ds) ELSE 0) \o ds)

\* the layout element "15" takes one or two digits, the others exactly two
HourLen(s) == IF Len(s) >= 2 /\ IsDigit(s[2]) THEN 2 ELSE 1

\* time.Parse(brokerTimeFormat, s): layout 2006-01-02T15:04:05.000, read as UTC
ParseBrokerTime(s) ==
    IF Len(s) < 11 \/ ~AllDigits(SubSeq(s, 1, 4)) \/ s[5] # "-"
       \/ ~AllDigits(SubSeq(s, 6, 7)) \/ s[8] # "-"
       \/ ~AllDigits(SubSeq(s, 9, 10)) \/ s[11] # "T"
    THEN ParseFail
    ELSE LET t == SubSeq(s, 12, Len(s))
             hl == HourLen(t)
         IN  IF Len(t) # hl + 10 \/ ~AllDigits(SubSeq(t, 1, hl)) \/ t[hl + 1] # ":"
                \/ ~AllDigits(SubSeq(t, hl + 2, hl + 3)) \/ t[hl + 4] # ":"
                \/ ~AllDigits(SubSeq(t, hl + 5, hl + 6)) \/ t[hl + 7] # "."
                \/ ~AllDigits(SubSeq(t, hl + 8, hl + 10))
             THEN ParseFail
             ELSE LET y == DigitsNat(ToDigits(SubSeq(s, 1, 4)))
                      mo == DigitsNat(ToDigits(SubSeq(s, 6, 7)))
                      dd == DigitsNat(ToDigits(SubSeq(s, 9, 10)))
                      h == DigitsNat(ToDigits(SubSeq(t, 1, hl)))
                      mi == DigitsNat(ToDigits(SubSeq(t, hl + 2, hl + 3)))
                      sec == DigitsNat(ToDigits(SubSeq(t, hl + 5, hl + 6)))
                      ms == DigitsNat(ToDigits(SubSeq(t, hl + 8, hl + 10)))
                  IN  IF mo \notin 1..12 \/ h > 23 \/ mi > 59 \/ sec > 59
                         \/ dd < 1 \/ dd > DaysIn(mo, y)
                      THEN ParseFail
                      ELSE [ok |-> TRUE,
                            v |-> [Y |-> y, Mo |-> mo, D |-> dd, h |-> h, mi |-> mi,
                                   s |-> sec, ns |-> ms * 1000000, off |-> 0]]

\* the date and time of day of t, as both layouts print them
FormatDateTime(t) ==
    PadInt(t.Y, 4) \o <<"-">> \o PadInt(t.Mo, 2) \o <<"-">> \o PadInt(t.D, 2)
        \o <<"T">> \o PadInt(t.h, 2) \o <<":">> \o PadInt(t.mi, 2)
        \o <<":">> \o PadInt(t.s, 2)

\* time.Time.Format(brokerTimeFormat): the wall clock, milliseconds cut off
FormatBrokerTime(t) ==
    FormatDateTime(t) \o <<".">> \o PadInt(t.ns \div 1000000, 3)

\* the zone of time.RFC3339: Z, or +hh:mm / -hh:mm
FormatZone(off) ==
    IF off = 0 THEN <<"Z">>
    ELSE LET a == IF off < 0 THEN -off ELSE off
         IN  <<IF off < 0 THEN "-" ELSE "+">> \o PadInt(a \div 60, 2)
                 \o <<":">> \o PadInt(a % 60, 2)

\* time.Time.MarshalJSON: the text of layout time.RFC3339Nano
FormatRFC3339Nano(t) ==
    LET frac == StripTrailingZeros(ToDigits(PadInt(t.ns, 9)))
    IN  FormatDateTime(t)
            \o (IF Len(frac) = 0 THEN <<>> ELSE <<".">> \o ToChars(frac))
            \o FormatZone(t.off)

----------------------------------------------------------------------------
(* time.Duration: a machine integer of nanoseconds.  A unit is the pair    *)
(* <<m, k>> standing for m * 10^k nanoseconds.  The float64 products of    *)
(* the code are computed exactly.                                          *)

\* (ip.fp) * m * 10^k, cut to an integer
ScaleTrunc(ip, fp, m, k) ==
    ShiftDigits(MulSmall(StripZeros(<<0>> \o ip \o fp), m), k - Len(fp))

\* time.unitMap (the two micro signs are not drawn)
UnitMap ==
    { <<(<<"n","s">>), <<1, 0>>>>, <<(<<"u","s">>), <<1, 3>>>>,
      <<(<<"m","s">>), <<1, 6>>>>, <<(<<"s">>), <<1, 9>>>>,
      <<(<<"m">>), <<60, 9>>>>, <<(<<"h">>), <<3600, 9>>>> }

IsUnit(u) == \E p \in UnitMap : p[1] = u

UnitOf(u) == (CHOOSE p \in UnitMap : p[1] = u)[2]

IsNumChar(c) == c = "." \/ IsDigit(c)

\* the length of the longest prefix of s made of digits
RECURSIVE DigitPrefixLen(_)
DigitPrefixLen(s) ==
    IF Len(s) > 0 /\ IsDigit(s[1]) THEN 1 + DigitPrefixLen(Tail(s)) ELSE 0

\* the length of the longest prefix of s free of digits and periods
RECURSIVE UnitPrefixLen(_)
UnitPrefixLen(s) ==
    IF Len(s) > 0 /\ ~IsNumChar(s[1]) THEN 1 + UnitPrefixLen(Tail(s)) ELSE 0

\* the loop of time.ParseDuration over the groups <number><unit> of s,
\* acc the nanoseconds summed so far
RECURSIVE ParseGroups(_, _)
ParseGroups(s, acc) ==
    IF Len(s) = 0 THEN [ok |-> TRUE, v |-> acc]
    ELSE IF ~IsNumChar(s[1]) THEN ParseFail
    ELSE LET \* the group's unit: ul characters of s3, after il integer
             \* digits and fl fraction digits
             unit(il, ip, fl, fp, s3, ul) ==
                 LET add(sum) ==
                         IF ~DigitsLeq(sum, MinInt64Magnitude) THEN ParseFail
                         ELSE ParseGroups(SubSeq(s3, ul + 1, Len(s3)), sum)
                 IN  IF il = 0 /\ fl = 0 THEN ParseFail
                     ELSE IF ul = 0 \/ ~IsUnit(SubSeq(s3, 1, ul)) THEN ParseFail
                     ELSE add(AddDigits(acc, ScaleTrunc(ip, fp,
                                  UnitOf(SubSeq(s3, 1, ul))[1],
                                  UnitOf(SubSeq(s3, 1, ul))[2])))
             \* the group's fraction: fl digits of s2
             frac(il, ip, s2, fl) ==
                 unit(il, ip, fl, ToDigits(SubSeq(s2, 1, fl)),
                      SubSeq(s2, fl + 1, Len(s2)),
                      UnitPrefixLen(SubSeq(s2, fl + 1, Len(s2))))
             \* the group's integer: il digits of s, then s1
             int(il, s1) ==
                 IF Len(s1) > 0 /\ s1[1] = "."
                 THEN frac(il, ToDigits(SubSeq(s, 1, il)), Tail(s1),
                           DigitPrefixLen(Tail(s1)))
                 ELSE frac(il, ToDigits(SubSeq(s, 1, il)), s1, 0)
         IN  int(DigitPrefixLen(s), SubSeq(s, DigitPrefixLen(s) + 1, Len(s)))

\* time.ParseDuration
ParseDuration(s) ==
    LET signed == Len(s) > 0 /\ s[1] \in {"+", "-"}
        neg == signed /\ s[1] = "-"
        groups(rest, g) ==
            IF rest = <<"0">> THEN [ok |-> TRUE, v |-> MkInt(FALSE, <<0>>)]
            ELSE IF Len(rest) = 0 \/ ~g.ok THEN ParseFail
            ELSE IF ~neg /\ ~DigitsLeq(g.v, MaxInt64) THEN ParseFail
            ELSE [ok |-> TRUE, v |-> MkInt(neg, g.v)]
    IN  IF signed THEN groups(Tail(s), ParseGroups(Tail(s), <<0>>))
        ELSE groups(s, ParseGroups(s, <<0>>))

RECURSIVE DivStep(_, _, _)
DivStep(ds, m, rem) ==
    IF Len(ds) = 0 THEN <<>>
    ELSE LET t == rem * 10 + ds[1]
         IN  <<t \div m>> \o DivStep(Tail(ds), m, t % m)

\* the integer part of ds / m for a small divisor m
DivSmall(ds, m) == StripZeros(<<0>> \o DivStep(ds, m, 0))

\* strings.TrimRight(s, c) for one character c
RECURSIVE TrimRight(_, _)
TrimRight(s, c) ==
    IF Len(s) > 0 /\ s[Len(s)] = c THEN TrimRight(SubSeq(s, 1, Len(s) - 1), c) ELSE s

\* a trim that strips the zeros and leaves the decimal point
trimZeros(s) == TrimRight(s, "0")

\* the closure trim of formatTimespan
trim(s) == TrimRight(TrimRight(s, "0"), ".")

\* fmt.Sprintf("%.4f", float64(dur) / unit) for the unit m * 10^k
Sprintf4f(dur, m, k) ==
    LET \* p: the digits of the quotient rounded to four decimals
        text(p) ==
            (IF dur.neg THEN <<"-">> ELSE <<>>)
                \o ToChars(SubSeq(p, 1, Len(p) - 4)) \o <<".">>
                \o ToChars(SubSeq(p, Len(p) - 3, Len(p)))
        pad(r) == text(Zeros(IF Len(r) < 5 THEN 5 - Len(r) ELSE 0) \o r)
        \* x: the quotient to five decimals; its last digit rounds half up
        round(x) ==
            IF x[Len(x)] >= 5 THEN pad(AddDigits(ShiftDigits(x, -1), <<1>>))
            ELSE pad(ShiftDigits(x, -1))
    IN  round(DivSmall(ShiftDigits(dur.dig, 5 - k), m))

\* dur.Abs() < m * 10^k nanoseconds
AbsBelow(dur, m, k) ==
    LET lim == MulSmall(<<1>> \o Zeros(k), m)
    IN  DigitsLeq(dur.dig, lim) /\ dur.dig # lim

formatTimespan(dur) ==
    LET \* the unit m * 10^k nanoseconds and its suffix
        in(m, k, suffix) == trim(Sprintf4f(dur, m, k)) \o suffix
    IN  IF AbsBelow(dur, 1, 6) THEN in(1, 0, <<"n", "s">>)
        ELSE IF AbsBelow(dur, 1, 9) THEN in(1, 6, <<"m", "s">>)
        ELSE IF AbsBelow(dur, 60, 9) THEN in(1, 9, <<"s">>)
        ELSE IF AbsBelow(dur, 3600, 9) THEN in(60, 9, <<"m", "i", "n">>)
        ELSE IF AbsBelow(dur, 86400, 9) THEN in(3600, 9, <<"h">>)
        ELSE in(86400, 9, <<"d">>)

\* a timespan case that hands the suffix min to time.ParseDuration as it is
DecodeTimespanKeepsMin(stringValue) ==
    LET byDays(days) ==
            IF ~days.ok THEN [ok |-> FALSE, byDays |-> TRUE]
            ELSE [ok |-> TRUE,
                  v |-> MkInt(days.v.neg,
                              ScaleTrunc(days.v.ip, days.v.fp, 86400, 9))]
        byUnits(du) == IF du.ok THEN du ELSE [ok |-> FALSE, byDays |-> FALSE]
    IN  IF HasSuffix(stringValue, <<"d">>)
        THEN byDays(ParseFloat(SubSeq(stringValue, 1, Len(stringValue) - 1)))
        ELSE byUnits(ParseDuration(stringValue))

\* the timespan case of Data.decode: the Duration, or an error
DecodeTimespan(stringValue) ==
    LET byDays(days) ==
            IF ~days.ok THEN [ok |-> FALSE, byDays |-> TRUE]
            ELSE [ok |-> TRUE,
                  v |-> MkInt(days.v.neg,
                              ScaleTrunc(days.v.ip, days.v.fp, 86400, 9))]
        byUnits(du) == IF du.ok THEN du ELSE [ok |-> FALSE, byDays |-> FALSE]
        parse(sv) ==
            IF HasSuffix(sv, <<"d">>)
            THEN byDays(ParseFloat(SubSeq(sv, 1, Len(sv) - 1)))
            ELSE byUnits(ParseDuration(sv))
    IN  IF HasSuffix(stringValue, <<"m", "i", "n">>)
        THEN parse(SubSeq(stringValue, 1, Len(stringValue) - 2))
        ELSE parse(stringValue)

----------------------------------------------------------------------------
(* JSON documents, as encoding/json parses them into interface{} values:   *)
(* an object is the set of its <<key, value>> pairs (keys are unique), a    *)
(* number keeps its text (json.Number), a string its characters.           *)

JNull == <<"null", 0>>

JBool(b) == <<"bool", b>>

JNum(s) == <<"num", s>>

JStr(s) == <<"str", s>>

JArr(a) == <<"arr", a>>

JObj(m) == <<"obj", m>>

\* the kind and the payload of a JSON document or of a Go value
Kind(x) == x[1]

Val(x) == x[2]

HasKey(m, k) == \E p \in m : p[1] = k

Get(m, k) == (CHOOSE p \in m : p[1] = k)[2]

----------------------------------------------------------------------------
(* Go values held in the interface field Data.DataValue *)

GoNil == <<"nil", 0>>

\* the value v of the dynamic type kind: bool, uint64, int64, float64,
\* Duration, Time, string, Service; IP (net.IP, a byte slice whose nil is the
\* empty sequence); map[Data]struct{} (the set of its keys); map[Data]Data
\* (the set of its <<key, value>> pairs); []map[string]Data (each map
\* holding "key" and "value")
GoVal(kind, v) == <<kind, v>>

\* *net.IPNet: the address of the allocation and the network it holds
GoIPNet(addr, n) == <<"*IPNet", [addr |-> addr, net |-> n]>>

\* the nil *net.IPNet
GoNilIPNet ==
    <<"*IPNet", [addr |-> <<0>>, net |-> [IP |-> <<>>, Mask |-> <<>>, bits |-> 0]]>>

\* []Data; a nil slice and an empty one are different values
GoSlice(a) == <<"[]Data", [v |-> a, isnil |-> FALSE]>>

GoNilSlice == <<"[]Data", [v |-> <<>>, isnil |-> TRUE]>>

\* the empty map[string]interface{}
GoEmptyMap == <<"map[string]interface{}", {}>>

\* the Data struct of part_003
MkData(t, dv) == [DataType |-> t, DataValue |-> dv]

\* the zero Data
ZeroData == MkData("", GoNil)

\* time.Time{}
ZeroTime == [Y |-> 1, Mo |-> 1, D |-> 1, h |-> 0, mi |-> 0, s |-> 0, ns |-> 0, off |-> 0]

\* the generated table _TypeValue
TypeValue ==
    { <<(<<"b","o","o","l","e","a","n">>), "boolean">>,
      <<(<<"c","o","u","n","t">>), "count">>,
      <<(<<"i","n","t","e","g","e","r">>), "integer">>,
      <<(<<"r","e","a","l">>), "real">>,
      <<(<<"t","i","m","e","s","p","a","n">>), "timespan">>,
      <<(<<"t","i","m","e","s","t","a","m","p">>), "timestamp">>,
      <<(<<"s","t","r","i","n","g">>), "string">>,
      <<(<<"e","n","u","m","-","v","a","l","u","e">>), "enum-value">>,
      <<(<<"a","d","d","r","e","s","s">>), "address">>,
      <<(<<"s","u","b","n","e","t">>), "subnet">>,
      <<(<<"p","o","r","t">>), "port">>,
      <<(<<"v","e","c","t","o","r">>), "vector">>,
      <<(<<"s","e","t">>), "set">>,
      <<(<<"t","a","b","l","e">>), "table">>,
      <<(<<"n","o","n","e">>), "none">> }

\* ParseType
ParseType(name) ==
    IF \E p \in TypeValue : p[1] = name
    THEN [ok |-> TRUE, v |-> (CHOOSE p \in TypeValue : p[1] = name)[2]]
    ELSE [ok |-> FALSE, v |-> ""]

\* Type.String / Type.MarshalText: the text of the type (the zero Type is
\* the empty string)
TypeString(t) == IF t = "" THEN <<>> ELSE (CHOOSE p \in TypeValue : p[2] = t)[1]

\* the generated table _ProtocolValue
ProtocolValue ==
    { <<(<<"t","c","p">>), "tcp">>,
      <<(<<"u","d","p">>), "udp">>,
      <<(<<"i","c","m","p">>), "icmp">>,
      <<(<<"?">>), "?">> }

\* ParseProtocol
ParseProtocol(name) ==
    IF \E p \in ProtocolValue : p[1] = name
    THEN [ok |-> TRUE, v |-> (CHOOSE p \in ProtocolValue : p[1] = name)[2]]
    ELSE [ok |-> FALSE, v |-> ""]

\* Protocol.String
ProtocolString(x) == (CHOOSE p \in ProtocolValue : p[2] = x)[1]

\* ParseService: "<port>/<protocol>"
ParseService(stringValue) ==
    LET parts == Split(stringValue, "/")
    IN  IF Len(parts) # 2 THEN ParseFail
        ELSE LET p == ParseUint(parts[1], MaxUint16)
                 l4 == ParseProtocol(parts[2])
             IN  IF ~p.ok \/ ~l4.ok THEN ParseFail
                 ELSE [ok |-> TRUE,
                       v |-> [Port |-> DigitsNat(p.v.dig), Protocol |-> l4.v]]

----------------------------------------------------------------------------
(* Data.decode.  A result is [st, d, e]: st is "ok", "err" (an error value *)
(* is returned) or "panic" (the goroutine panics); d is the receiver as    *)
(* the call leaves it; e names the error.                                  *)

Ok(dd) == [st |-> "ok", d |-> dd, e |-> ""]

Err(dd, e) == [st |-> "err", d |-> dd, e |-> e]

NumberTypes == {"real", "integer", "count"}

StringTypes == {"string", "timespan", "timestamp", "enum-value", "address", "subnet", "port"}

\* whether the Go runtime can hash a Data holding dv as a map key: slices
\* and maps are not hashable, and hashing one panics
Hashable(dv) ==
    Kind(dv) \notin {"IP", "[]Data", "map[Data]struct{}", "map[Data]Data",
                  "[]map[string]Data", "map[string]interface{}"}

\* Go's == on two float64
FloatEq(f, g) ==
    \/ f = g
    \/ /\ f.ip = <<0>> /\ f.fp = <<>>
       /\ g.ip = <<0>> /\ g.fp = <<>>

\* Go's == on two Data used as map keys (both hashable): the same tag, the
\* same dynamic type and equal values; pointers are equal when they point
\* to the same allocation
KeyEq(a, b) ==
    /\ a.DataType = b.DataType
    /\ Kind(a.DataValue) = Kind(b.DataValue)
    /\ IF Kind(a.DataValue) = "nil" THEN TRUE
       ELSE IF Kind(a.DataValue) = "float64" THEN FloatEq(Val(a.DataValue), Val(b.DataValue))
       ELSE IF Kind(a.DataValue) = "*IPNet" THEN Val(a.DataValue).addr = Val(b.DataValue).addr
       ELSE Val(a.DataValue) = Val(b.DataValue)

RECURSIVE decode(_, _, _)
RECURSIVE decodeVector(_, _, _, _)
RECURSIVE decodeSet(_, _, _, _)
RECURSIVE decodeTable(_, _, _, _)

\* the loop of the vector case from element i on; datas the elements decoded
decodeVector(va, i, datas, path) ==
    IF i > Len(va) THEN [st |-> "ok", v |-> datas, e |-> ""]
    ELSE IF Kind(va[i]) # "obj"
    THEN [st |-> "err", e |-> "expected Vector type elements to be serialized as JSON objects"]
    ELSE LET element(r) ==
                 IF r.st = "panic" THEN [st |-> "panic", e |-> r.e]
                 ELSE IF r.st = "err" THEN [st |-> "err", e |-> "error decoding Vector element"]
                 ELSE decodeVector(va, i + 1, Append(datas, r.d), path)
         IN  element(decode(ZeroData, Val(va[i]), path \o <<i>>))

\* the loop of the set case from element i on; datas the keys of the map
decodeSet(sa, i, datas, path) ==
    IF i > Len(sa) THEN [st |-> "ok", v |-> datas, e |-> ""]
    ELSE IF Kind(sa[i]) # "obj"
    THEN [st |-> "err", e |-> "expected Set type elements to be serialized as JSON objects"]
    ELSE LET element(r) ==
                 IF r.st = "panic" THEN [st |-> "panic", e |-> r.e]
                 ELSE IF r.st = "err" THEN [st |-> "err", e |-> "error decoding Set element"]
                 ELSE IF ~Hashable(r.d.DataValue)
                 THEN [st |-> "panic", e |-> "hash of unhashable type"]
                 ELSE IF \E k \in datas : KeyEq(k, r.d)
                 THEN [st |-> "err", e |-> "duplicate Set element"]
                 ELSE decodeSet(sa, i + 1, datas \cup {r.d}, path)
         IN  element(decode(ZeroData, Val(sa[i]), path \o <<i>>))

\* the loop of the table case from element i on; datas the pairs of the map
decodeTable(ta, i, datas, path) ==
    IF i > Len(ta) THEN [st |-> "ok", v |-> datas, e |-> ""]
    ELSE IF Kind(ta[i]) # "obj"
    THEN [st |-> "err", e |-> "expected Table type elements to be serialized as JSON objects"]
    ELSE LET m == Val(ta[i])
             \* dValue decoded, after dKey
             value(k, v) ==
                 IF v.st = "panic" THEN [st |-> "panic", e |-> v.e]
                 ELSE IF v.st = "err"
                 THEN [st |-> "err", e |-> "error decoding Table value element"]
                 ELSE IF ~Hashable(k.d.DataValue)
                 THEN [st |-> "panic", e |-> "hash of unhashable type"]
                 ELSE IF \E kv \in datas : KeyEq(kv[1], k.d)
                 THEN [st |-> "err", e |-> "duplicate Table key"]
                 ELSE decodeTable(ta, i + 1, datas \cup {<<k.d, v.d>>}, path)
             \* dKey decoded
             key(k) ==
                 IF k.st = "panic" THEN [st |-> "panic", e |-> k.e]
                 ELSE IF k.st = "err"
                 THEN [st |-> "err", e |-> "error decoding Table key element"]
                 ELSE IF ~HasKey(m, "value")
                 THEN [st |-> "err", e |-> "expected Table type elements to have a property named value"]
                 ELSE IF Kind(Get(m, "value")) # "obj"
                 THEN [st |-> "err", e |-> "expected Table type elements values be serialized as JSON objects"]
                 ELSE value(k, decode(ZeroData, Val(Get(m, "value")), path \o <<i, 2>>))
         IN  IF Cardinality(m) # 2
             THEN [st |-> "err", e |-> "expected Table type elements to have two properties"]
             ELSE IF ~HasKey(m, "key")
             THEN [st |-> "err", e |-> "expected Table type elements to have a property named key"]
             ELSE IF Kind(Get(m, "key")) # "obj"
             THEN [st |-> "err", e |-> "expected Table type elements keys be serialized as JSON objects"]
             ELSE key(decode(ZeroData, Val(Get(m, "key")), path \o <<i, 1>>))

\* the switch of Data.decode on d.DataType, v the "data" property
decodeValue(dd, v, path) ==
    LET t == dd.DataType
        set(dv) == [dd EXCEPT !.DataValue = dv]
        real(f) ==
            IF ~f.ok THEN Err(dd, "problem converting Real type to float64")
            ELSE Ok(set(GoVal("float64", f.v)))
        count(i) ==
            IF ~i.ok THEN Err(dd, "problem converting Count type to uint64")
            ELSE Ok(set(GoVal("uint64", i.v)))
        integer(i) ==
            IF ~i.ok THEN Err(dd, "problem converting Integer type to int64")
            ELSE Ok(set(GoVal("int64", i.v)))
        timespan(du) ==
            IF du.ok THEN Ok(set(GoVal("Duration", du.v)))
            ELSE IF du.byDays THEN Err(dd, "strconv.ParseFloat")
            ELSE Err(set(GoVal("Duration", IntOf(0))), "time: invalid duration")
        timestamp(ts) ==
            IF ts.ok THEN Ok(set(GoVal("Time", ts.v)))
            ELSE Err(set(GoVal("Time", ZeroTime)), "parsing time")
        \* the interface holding a nil net.IP is not nil: the test
        \* d.DataValue == nil of the code is never true
        address(ip) == Ok(set(GoVal("IP", IF ip.ok THEN ip.v ELSE <<>>)))
        subnet(n) ==
            IF n.ok THEN Ok(set(GoIPNet(path, n.v)))
            ELSE Err(set(GoNilIPNet), "invalid CIDR address")
        port(service) ==
            IF ~service.ok THEN Err(dd, "invalid port")
            ELSE Ok(set(GoVal("Service", service.v)))
        vector(r) ==
            IF r.st = "ok" THEN Ok(set(GoSlice(r.v)))
            ELSE [st |-> r.st, d |-> dd, e |-> r.e]
        elements(r) ==
            IF r.st = "ok" THEN Ok(set(GoVal("map[Data]struct{}", r.v)))
            ELSE [st |-> r.st, d |-> dd, e |-> r.e]
        entries(r) ==
            IF r.st = "ok" THEN Ok(set(GoVal("map[Data]Data", r.v)))
            ELSE [st |-> r.st, d |-> dd, e |-> r.e]
    IN  CASE t = "boolean" ->
                IF Kind(v) # "bool"
                THEN Err(dd, "expected Boolean type to be serialized as JSON boolean")
                ELSE Ok(set(GoVal("bool", Val(v))))
          [] t = "none" ->
                IF Kind(v) # "obj"
                THEN Err(dd, "expected None type elements to be serialized empty JSON objects")
                ELSE IF Cardinality(Val(v)) > 0
                THEN Err(dd, "expected None type to be serialized as empty JSON object")
                ELSE Ok(set(GoNil))
          [] t = "real" -> real(ParseFloat(Val(v)))
          [] t \in {"string", "enum-value"} -> Ok(set(GoVal("string", Val(v))))
          [] t = "count" -> count(ParseUint(Val(v), MaxUint64))
          [] t = "integer" -> integer(ParseInt(Val(v)))
          [] t = "timespan" -> timespan(DecodeTimespan(Val(v)))
          [] t = "timestamp" -> timestamp(ParseBrokerTime(Val(v)))
          [] t = "address" -> address(ParseIP(Val(v)))
          [] t = "subnet" -> subnet(ParseCIDR(Val(v)))
          [] t = "port" -> port(ParseService(Val(v)))
          [] t = "vector" ->
                IF Kind(v) # "arr"
                THEN Err(dd, "expected Vector type to be serialized as JSON array")
                ELSE vector(decodeVector(Val(v), 1, <<>>, path))
          [] t = "set" ->
                IF Kind(v) # "arr"
                THEN Err(dd, "expected Set type to be serialized as JSON array")
                ELSE elements(decodeSet(Val(v), 1, {}, path))
          [] t = "table" ->
                IF Kind(v) # "arr"
                THEN Err(dd, "expected Table type to be serialized as JSON array")
                ELSE entries(decodeTable(Val(v), 1, {}, path))

\* Data.decode on the receiver dd; path tells the allocations of nested
\* values apart
decode(dd, rawData, path) ==
    IF ~HasKey(rawData, "@data-type")
    THEN Err(dd, "JSON object is missing the @data-type property")
    ELSE IF Kind(Get(rawData, "@data-type")) # "str"
    THEN Err(dd, "the @data-type property is not a string")
    ELSE IF ~HasKey(rawData, "data")
    THEN Err(dd, "JSON object is missing the data property")
    ELSE LET \* d.DataType is assigned whether ParseType succeeds or not
             typed(pt, d1, v) ==
                 IF ~pt.ok THEN Err(d1, "not a valid Type")
                 ELSE IF d1.DataType \in NumberTypes /\ Kind(v) # "num"
                 THEN Err(d1, "expected type to be serialized as JSON number")
                 ELSE IF d1.DataType \in StringTypes /\ Kind(v) # "str"
                 THEN Err(d1, "expected type to be serialized as JSON string")
                 ELSE decodeValue(d1, v, path)
             parsed(pt) ==
                 typed(pt, [dd EXCEPT !.DataType = pt.v], Get(rawData, "data"))
         IN  parsed(ParseType(Val(Get(rawData, "@data-type"))))

\* Data.UnmarshalJSON: b is the document; only an object (or null) decodes
\* into the map[string]interface{}
DataUnmarshalJSON(dd, b) ==
    IF Kind(b) = "null" THEN decode(dd, {}, <<>>)
    ELSE IF Kind(b) # "obj" THEN Err(dd, "json: cannot unmarshal into Go value of type map[string]interface {}")
    ELSE decode(dd, Val(b), <<>>)

----------------------------------------------------------------------------
(* Data.MarshalJSON, with encoding/json's rules for the values it is given. *)
(* A result is [st, j, e]: st "ok" with the document j, or "err".           *)

EncOk(j) == [st |-> "ok", j |-> j, e |-> ""]

EncErr(e) == [st |-> "err", j |-> JNull, e |-> e]

\* the object {"@data-type": t, "data": j}
DataObject(t, j) == JObj({<<"@data-type", JStr(TypeString(t))>>, <<"data", j>>})

RECURSIVE DataMarshalJSON(_)
RECURSIVE encodeValue(_)
RECURSIVE encodeDataStruct(_)

\* encoding/json on a Data it cannot take the address of (a map value):
\* the method MarshalJSON, which has a pointer receiver, is not called and
\* the struct is encoded field by field
encodeDataStruct(dd) ==
    LET object(r) == IF r.st # "ok" THEN r ELSE EncOk(DataObject(dd.DataType, r.j))
    IN  object(encodeValue(dd.DataValue))

\* encoding/json on the dynamic value x of an interface{}
encodeValue(x) ==
    CASE Kind(x) = "nil" -> EncOk(JNull)
      [] Kind(x) = "bool" -> EncOk(JBool(Val(x)))
      [] Kind(x) \in {"uint64", "int64", "Duration"} -> EncOk(JNum(FormatInt(Val(x))))
      [] Kind(x) = "float64" -> EncOk(JNum(FormatFloat(Val(x))))
      [] Kind(x) = "string" -> EncOk(JStr(Val(x)))
      [] Kind(x) = "Time" ->
            IF Val(x).Y > 9999 THEN EncErr("Time.MarshalJSON: year outside of range [0,9999]")
            ELSE EncOk(JStr(FormatRFC3339Nano(Val(x))))
      [] Kind(x) = "IP" -> EncOk(JStr(IF Len(Val(x)) = 0 THEN <<>> ELSE IPString(Val(x))))
      [] Kind(x) = "*IPNet" ->
            IF Val(x).addr = <<0>> THEN EncOk(JNull)
            ELSE EncOk(JObj({<<"IP", JStr(IPString(Val(x).net.IP))>>,
                             <<"Mask", JStr(Base64Of4(Val(x).net.Mask))>>}))
      [] Kind(x) = "Service" ->
            \* Service.MarshalJSON has a pointer receiver too
            EncOk(JObj({<<"Port", JNum(ToChars(NatDigits(Val(x).Port)))>>,
                        <<"Protocol", JStr(ProtocolString(Val(x).Protocol))>>}))
      [] Kind(x) = "[]Data" ->
            IF Val(x).isnil THEN EncOk(JNull)
            ELSE LET array(rs) ==
                         IF \E i \in 1..Len(rs) : rs[i].st # "ok"
                         THEN EncErr("json: error calling MarshalJSON for type *encoding.Data")
                         ELSE EncOk(JArr([i \in 1..Len(rs) |-> rs[i].j]))
                 IN  array([i \in 1..Len(Val(x).v) |-> DataMarshalJSON(Val(x).v[i])])
      [] Kind(x) = "[]map[string]Data" ->
            LET \* rs[i][1] the key and rs[i][2] the value of map i
                array(rs) ==
                    IF \E i \in 1..Len(rs) : rs[i][1].st # "ok" \/ rs[i][2].st # "ok"
                    THEN EncErr("json: error encoding a table entry")
                    ELSE EncOk(JArr([i \in 1..Len(rs) |->
                             JObj({<<"key", rs[i][1].j>>, <<"value", rs[i][2].j>>})]))
            IN  array([i \in 1..Len(Val(x)) |->
                          <<encodeDataStruct(Val(x)[i].key),
                            encodeDataStruct(Val(x)[i].value)>>])
      [] Kind(x) = "map[string]interface{}" -> EncOk(JObj({}))
      [] Kind(x) \in {"map[Data]struct{}", "map[Data]Data"} ->
            EncErr("json: unsupported type")

\* Data.MarshalJSON
DataMarshalJSON(dd) ==
    CASE dd.DataType = "timestamp" ->
            IF Kind(dd.DataValue) # "Time"
            THEN EncErr("expected a time.Time as the DataValue")
            ELSE EncOk(DataObject(dd.DataType, JStr(FormatBrokerTime(Val(dd.DataValue)))))
      [] dd.DataType = "timespan" ->
            IF Kind(dd.DataValue) # "Duration"
            THEN EncErr("expected a time.Duration as the DataValue")
            ELSE EncOk(DataObject(dd.DataType, JStr(formatTimespan(Val(dd.DataValue)))))
      [] dd.DataType = "port" ->
            IF Kind(dd.DataValue) # "Service"
            THEN EncErr("expected a encoding.Service as the DataValue")
            ELSE EncOk(DataObject(dd.DataType,
                     JStr(ToChars(NatDigits(Val(dd.DataValue).Port)) \o <<"/">>
                            \o ProtocolString(Val(dd.DataValue).Protocol))))
      [] OTHER -> encodeDataStruct(dd)

----------------------------------------------------------------------------
(* The constructors of helpers.go *)

Boolean(value) == MkData("boolean", GoVal("bool", value))

Count(value) == MkData("count", GoVal("uint64", value))

Integer(value) == MkData("integer", GoVal("int64", value))

Real(value) == MkData("real", GoVal("float64", value))

Timespan(value) == MkData("timespan", GoVal("Duration", value))

Timestamp(value) == MkData("timestamp", GoVal("Time", value))

String(value) == MkData("string", GoVal("string", value))

EnumValue(value) == MkData("enum-value", GoVal("string", value))

Address(value) == MkData("address", GoVal("string", IPString(value)))

Subnet(value) == MkData("subnet", GoVal("string", IPNetString(value)))

Port(value) == MkData("port", GoVal("Service", value))

\* Vector(elements ...Data): called without elements the slice is nil
Vector(elements) ==
    MkData("vector", IF Len(elements) = 0 THEN GoNilSlice ELSE GoSlice(elements))

\* Vector(s...) for a slice s = [v, isnil] handed over as it is
VectorOf(s) == MkData("vector", IF s.isnil THEN GoNilSlice ELSE GoSlice(s.v))

\* Set(value): order lists the keys of the map as the range loop meets them
Set(order) == MkData("set", GoSlice(order))

\* Table(value): order lists the entries of the map as the range loop meets
\* them, each a pair <<key, value>>
Table(order) ==
    MkData("table", GoVal("[]map[string]Data", [i \in 1..Len(order) |->
                                [key |-> order[i][1], value |-> order[i][2]]]))

None == MkData("none", GoEmptyMap)

----------------------------------------------------------------------------
(* reflect.DeepEqual on Data values, the structural equality of the tests *)

RECURSIVE DeepEqual(_, _)
RECURSIVE ValueDeepEqual(_, _)

ValueDeepEqual(x, y) ==
    /\ Kind(x) = Kind(y)
    /\ CASE Kind(x) = "nil" -> TRUE
         [] Kind(x) = "float64" -> FloatEq(Val(x), Val(y))
         [] Kind(x) = "*IPNet" ->
               \/ Val(x).addr = <<0>> /\ Val(y).addr = <<0>>
               \/ Val(x).addr # <<0>> /\ Val(y).addr # <<0>> /\ Val(x).net = Val(y).net
         [] Kind(x) = "[]Data" ->
               /\ Val(x).isnil = Val(y).isnil
               /\ Len(Val(x).v) = Len(Val(y).v)
               /\ \A i \in 1..Len(Val(x).v) : DeepEqual(Val(x).v[i], Val(y).v[i])
         [] Kind(x) = "map[Data]struct{}" ->
               /\ Cardinality(Val(x)) = Cardinality(Val(y))
               /\ \A k \in Val(x) : \E k2 \in Val(y) : KeyEq(k, k2)
         [] Kind(x) = "map[Data]Data" ->
               /\ Cardinality(Val(x)) = Cardinality(Val(y))
               /\ \A kv \in Val(x) : \E kv2 \in Val(y) :
                     KeyEq(kv[1], kv2[1]) /\ DeepEqual(kv[2], kv2[2])
         [] Kind(x) = "[]map[string]Data" ->
               /\ Len(Val(x)) = Len(Val(y))
               /\ \A i \in 1..Len(Val(x)) :
                     /\ DeepEqual(Val(x)[i].key, Val(y)[i].key)
                     /\ DeepEqual(Val(x)[i].value, Val(y)[i].value)
         [] OTHER -> Val(x) = Val(y)

DeepEqual(a, b) ==
    /\ a.DataType = b.DataType
    /\ ValueDeepEqual(a.DataValue, b.DataValue)

----------------------------------------------------------------------------
(* The values the codec is run on *)

\* the longest vector, set or table drawn
MaxElems == 2

\* the number of codec operations applied in a run
MaxOps == 2

\* all sequences over S of length at most n
SeqsUpTo(S, n) == UNION {[1..k -> S] : k \in 0..n}

\* the sequences of SeqsUpTo whose elements are pairwise different
Distinct(a) == \A i, k \in 1..Len(a) : i # k => a[i] # a[k]

\* the wire object {"@data-type": t, "data": j} of a type name t
W(t, j) == DataObject(t, j)

Abc == <<"a","b","c">>

Html == <<"<","b",">">>

Amp == <<"a","&","b">>

WireScalars ==
    { W("boolean", JBool(TRUE)),
      W("count", JNum(<<"1">>)),
      W("count", JNum(<<"2">>)),
      W("integer", JNum(<<"-", "7">>)),
      W("real", JNum(<<"1", ".", "5">>)),
      W("string", JStr(Abc)),
      W("string", JStr(Html)),
      W("enum-value", JStr(Abc)),
      W("timespan", JStr(<<"1",".","5","h">>)),
      W("timespan", JStr(<<"9","0","m","i","n">>)),
      W("timestamp", JStr(<<"2","0","0","6","-","0","1","-","0","2","T","1","5",":","0","4",":","0","5",".","9","9","9">>)),
      W("address", JStr(<<"1",".","2",".","3",".","4">>)),
      W("subnet", JStr(<<"1",".","2",".","3",".","0","/","2","4">>)),
      W("port", JStr(<<"2","5","/","t","c","p">>)),
      W("none", JObj({})) }

\* the elements and keys that collections are drawn over
WireElems ==
    { W("count", JNum(<<"1">>)),
      W("string", JStr(Abc)),
      W("timestamp", JStr(<<"2","0","0","6","-","0","1","-","0","2","T","1","5",":","0","4",":","0","5",".","9","9","9">>)),
      W("port", JStr(<<"2","5","/","t","c","p">>)),
      W("address", JStr(<<"1",".","2",".","3",".","4">>)),
      W("subnet", JStr(<<"1",".","2",".","3",".","0","/","2","4">>)),
      W("vector", JArr(<<W("count", JNum(<<"1">>))>>)),
      W("set", JArr(<<>>)) }

WireTableValues == { W("count", JNum(<<"2">>)), W("none", JObj({})) }

WireEntries ==
    { JObj({<<"key", k>>, <<"value", v>>}) : k \in WireElems, v \in WireTableValues }

WireVectors == { W("vector", JArr(a)) : a \in SeqsUpTo(WireElems, MaxElems) }

WireSets == { W("set", JArr(a)) : a \in SeqsUpTo(WireElems, MaxElems) }

WireTables == { W("table", JArr(a)) : a \in SeqsUpTo(WireEntries, MaxElems) }

\* documents that are no valid wire object
WireInvalid ==
    { W("count", JNum(<<"-", "1">>)),
      W("count", JStr(<<"1">>)),
      W("integer", JNum(<<"1", ".", "5">>)),
      W("boolean", JNum(<<"1">>)),
      W("port", JStr(<<"2","5","/","s","c","t","p">>)),
      W("subnet", JStr(<<"1",".","2",".","3",".","4">>)),
      W("address", JStr(Abc)),
      W("timestamp", JStr(Abc)),
      W("timespan", JStr(Abc)),
      W("none", JObj({<<"x", JNull>>})),
      W("vector", JNull),
      W("vector", JArr(<<JNull>>)),
      W("table", JArr(<<JObj({<<"key", W("count", JNum(<<"1">>))>>})>>)),
      JObj({<<"@data-type", JStr(Abc)>>, <<"data", JNull>>}),
      JObj({<<"@data-type", JNum(<<"1">>)>>, <<"data", JNull>>}),
      JObj({<<"@data-type", JStr(<<"c","o","u","n","t">>)>>}),
      JObj({<<"data", JNull>>}),
      JArr(<<>>),
      JNull }

\* no two elements of a set and no two keys of a table are the same document
NoRepeat(x) ==
    LET t == Val(Get(Val(x), "@data-type"))
        a == Val(Get(Val(x), "data"))
    IN  IF t = <<"s","e","t">> THEN Distinct(a)
        ELSE IF t = <<"t","a","b","l","e">>
        THEN Distinct([i \in 1..Len(a) |-> Get(Val(a[i]), "key")])
        ELSE TRUE

\* the valid wire objects drawn: every payload has the shape of its tag, and
\* sets and tables repeat no element or key
WireValid ==
    WireScalars \cup WireVectors
        \cup {x \in WireSets \cup WireTables : NoRepeat(x)}

\* timespan strings of every unit, whole and fractional, and ill-formed ones
WireTimespans ==
    { W("timespan", JStr(<<"1","n","s">>)),
      W("timespan", JStr(<<"1","0","n","s">>)),
      W("timespan", JStr(<<"1","m","s">>)),
      W("timespan", JStr(<<"1",".","5","m","s">>)),
      W("timespan", JStr(<<"1","s">>)),
      W("timespan", JStr(<<"1",".","5","s">>)),
      W("timespan", JStr(<<"1","m","i","n">>)),
      W("timespan", JStr(<<"1",".","5","m","i","n">>)),
      W("timespan", JStr(<<"1","h">>)),
      W("timespan", JStr(<<"-","1",".","5","h">>)),
      W("timespan", JStr(<<"1","d">>)),
      W("timespan", JStr(<<"1",".","5","d">>)),
      W("timespan", JStr(<<"1",".","2","3","4","5","6","7","d">>)),
      W("timespan", JStr(<<"0",".","0","0","0","0","0","0","0","0","0","0","0","0","0","1","d">>)),
      W("timespan", JStr(<<"1",".","5","n","s">>)),
      W("timespan", JStr(<<"1",".","5">>)),
      W("timespan", JStr(<<"d">>)),
      W("timespan", JStr(<<"1",".","5","x">>)),
      W("timespan", JStr(<<"1","u","s">>)),
      W("timespan", JStr(<<"1","m">>)),
      W("timespan", JStr(<<"1","h","3","0","m">>)),
      W("timespan", JStr(<<"1","h","3","0","m","i","n">>)),
      W("timespan", JStr(<<"0">>)) }

\* numbers at and beyond both ends of each integer range, and integral and
\* non-integral numbers written with a sign, a fraction or an exponent
WireNumbers ==
    { W("count", JNum(<<"0">>)),
      W("count", JNum(<<"1","2","3">>)),
      W("count", JNum(<<"1",".","5">>)),
      W("count", JNum(<<"1",".","0">>)),
      W("count", JNum(<<"1","e","2">>)),
      W("count", JNum(<<"-","0">>)),
      W("count", JNum(<<"-","1","2","3">>)),
      W("count", JNum(<<"1","8","4","4","6","7","4","4","0","7","3","7","0","9","5","5","1","6","1","5">>)),
      W("count", JNum(<<"1","8","4","4","6","7","4","4","0","7","3","7","0","9","5","5","1","6","1","6">>)),
      W("integer", JNum(<<"0">>)),
      W("integer", JNum(<<"-","0">>)),
      W("integer", JNum(<<"1",".","0">>)),
      W("integer", JNum(<<"1","e","2">>)),
      W("integer", JNum(<<"9","2","2","3","3","7","2","0","3","6","8","5","4","7","7","5","8","0","7">>)),
      W("integer", JNum(<<"9","2","2","3","3","7","2","0","3","6","8","5","4","7","7","5","8","0","8">>)),
      W("integer", JNum(<<"-","9","2","2","3","3","7","2","0","3","6","8","5","4","7","7","5","8","0","8">>)),
      W("integer", JNum(<<"-","9","2","2","3","3","7","2","0","3","6","8","5","4","7","7","5","8","0","9">>)),
      W("integer", JNum(<<"1","8","4","4","6","7","4","4","0","7","3","7","0","9","5","5","1","6","1","5">>)),
      W("integer", JNum(<<"-","1","8","4","4","6","7","4","4","0","7","3","7","0","9","5","5","1","6","1","5">>)) }

WireInputs ==
    WireValid \cup WireSets \cup WireTables \cup WireInvalid \cup WireTimespans
        \cup WireNumbers

\* values built with the constructors of helpers.go
DataScalars ==
    { Boolean(TRUE),
      Count(IntOf(1)),
      Count(MkInt(FALSE, MaxUint64)),
      Integer(IntOf(-7)),
      Real([neg |-> FALSE, ip |-> <<1>>, fp |-> <<5>>]),
      String(Abc),
      String(Html),
      EnumValue(Abc),
      Address(<<1, 2, 3, 4>>),
      Subnet([IP |-> <<1, 2, 3, 0>>, Mask |-> CIDRMask(24), bits |-> 24]),
      Port([Port |-> 25, Protocol |-> "tcp"]),
      None,
      Timespan(MkInt(FALSE, <<5,4,0,0,0,0,0,0,0,0,0,0,0>>)),
      Timestamp([Y |-> 2006, Mo |-> 1, D |-> 2, h |-> 15, mi |-> 4, s |-> 5,
                 ns |-> 999000000, off |-> 0]) }

\* the elements vectors are built over
DataElems ==
    { Count(IntOf(1)), String(Abc), Address(<<1, 2, 3, 4>>),
      Port([Port |-> 25, Protocol |-> "tcp"]), None, Vector(<<Count(IntOf(1))>>) }

\* the keys of the maps handed to Set and Table (a map key must be hashable)
DataKeys ==
    { Count(IntOf(1)), String(Abc), Address(<<1, 2, 3, 4>>),
      Subnet([IP |-> <<1, 2, 3, 0>>, Mask |-> CIDRMask(24), bits |-> 24]),
      Port([Port |-> 25, Protocol |-> "tcp"]) }

DataTableValues == { Count(IntOf(2)), String(Abc) }

DataVectors == { Vector(a) : a \in SeqsUpTo(DataElems, MaxElems) }

DataSets == { Set(a) : a \in {b \in SeqsUpTo(DataKeys, MaxElems) : Distinct(b)} }

DataTables ==
    { Table(a) : a \in {b \in SeqsUpTo(DataKeys \X DataTableValues, MaxElems) :
                            Distinct([i \in 1..Len(b) |-> b[i][1]])} }

\* durations on both sides of every unit of formatTimespan
DataTimespans ==
    { Timespan(MkInt(FALSE, <<0>>)),
      Timespan(MkInt(FALSE, <<1,0>>)),
      Timespan(MkInt(TRUE, <<1,0>>)),
      Timespan(MkInt(FALSE, <<9,9,9,9,9,9>>)),
      Timespan(MkInt(FALSE, <<1,0,0,0,0,0,0>>)),
      Timespan(MkInt(FALSE, <<1,0,0,0,0,0,1>>)),
      Timespan(MkInt(FALSE, <<1,5,0,0,0,0,0>>)),
      Timespan(MkInt(FALSE, <<1,2,3,4,5,6,7>>)),
      Timespan(MkInt(TRUE, <<5,4,0,0,0,0,0,0,0,0,0,0,0>>)),
      Timespan(MkInt(FALSE, <<3,5,9,9,9,9,9,9,9,9,9,9,9>>)),
      Timespan(MkInt(FALSE, <<8,6,3,9,9,9,9,9,9,9,9,9,9,9>>)),
      Timespan(MkInt(FALSE, <<8,6,4,0,0,0,0,0,0,0,0,0,0,0>>)),
      Timespan(MkInt(FALSE, <<1,0,6,6,6,6,5,8,8,8,0,0,0,0,0>>)),
      Timespan(MkInt(FALSE, <<1,2,9,6,0,0,0,0,0,0,0,0,0,0,0>>)) }

\* instants given in UTC and in zones east and west of it, at and below
\* millisecond precision
DataTimestamps ==
    { Timestamp([Y |-> 2023, Mo |-> 5, D |-> 2, h |-> 4, mi |-> 31, s |-> 49,
                 ns |-> 0, off |-> 0]),
      Timestamp([Y |-> 2023, Mo |-> 5, D |-> 2, h |-> 4, mi |-> 31, s |-> 49,
                 ns |-> 123456789, off |-> 0]),
      Timestamp([Y |-> 2023, Mo |-> 5, D |-> 2, h |-> 6, mi |-> 31, s |-> 49,
                 ns |-> 123000000, off |-> 120]),
      Timestamp([Y |-> 2024, Mo |-> 2, D |-> 29, h |-> 22, mi |-> 0, s |-> 0,
                 ns |-> 999999999, off |-> -300]) }

DataInputs ==
    DataScalars \cup DataVectors \cup DataSets \cup DataTables \cup DataTimespans
        \cup DataTimestamps

----------------------------------------------------------------------------
(* The codec as a state machine: a run starts from a constructed Data or   *)
(* from a wire document and applies MarshalJSON and UnmarshalJSON.         *)

\* no document has been produced or received
NoWire == <<"absent", 0>>

NoRes == [st |-> "none", e |-> ""]

\* a nil error, a nil pointer
Nil == <<"nil", 0>>

\* a nil []Data or []EventMetaEntry; slices are [v, isnil] as in GoSlice
NilSlice == [v |-> <<>>, isnil |-> TRUE]

\* Event{}
ZeroEvent == [Name |-> <<>>, Arguments |-> NilSlice, Metadata |-> NilSlice]

\* DataMessage{}
ZeroDataMessage == [ConstType |-> <<>>, Topic |-> <<>>, Data |-> Nil]

\* nothing was called yet
NoGot == [op |-> "none", st |-> "none", topic |-> <<>>, evt |-> ZeroEvent, err |-> Nil]

\* no *Client
NoClient == [isnil |-> TRUE, endpointUUID |-> <<>>, endpointVersion |-> <<>>]

\* the Event and envelope variables while the codec runs
EventIdle ==
    /\ evt = ZeroEvent
    /\ calls = <<>>
    /\ msg = ZeroDataMessage
    /\ body = NoWire
    /\ got = NoGot
    /\ out = <<>>

\* no subscription: pc is where the goroutine of AsyncSubscription stands
\* ("none", "loop" at the select, "read" inside broker.ReadEvent(), "done",
\* "panic"), hm and eh whether an EventHandler and an ErrorHandler were
\* given, ctx the state of its context, handled the number of calls of the
\* EventHandler, reported the last error handed to the ErrorHandler, turn
\* the handler calls of the last turn of the loop that read something
NoSub ==
    [pc |-> "none", hm |-> FALSE, eh |-> FALSE, ctx |-> "live", handled |-> 0,
     reported |-> Nil, turn |-> <<>>]

\* the Client variables while no connection is modelled
ClientIdle ==
    /\ inbox = <<>>
    /\ client = NoClient
    /\ sub = NoSub

\* the callers of NewClient (goroutines of the program)
Callers == {"a", "b"}

\* the TLSDialFunc values callers pass; NoFunc is the nil func
TLSDialFuncs == {"dialA", "dialB"}

NoFunc == "nil"

\* a caller that is not inside NewClient and has not called it: pc is
\* "idle", "dial" (before dialer.DialContext), "write" (before c.WriteJSON),
\* "read" (before c.ReadJSON) or "returned"; secure and tlsDialFunc are the
\* arguments; used is the function the connection was dialed with ("net" for
\* a plain connection); conn is "none", "open" or "closed"; err is the error
\* returned, "nil" for none
NoDial ==
    [pc |-> "idle", secure |-> FALSE, tlsDialFunc |-> NoFunc, used |-> NoFunc,
     conn |-> "none", err |-> "nil"]

\* websocket.DefaultDialer as the library declares it (no dial functions
\* set), nobody connecting
DialerIdle ==
    /\ DefaultDialer = [NetDialTLSContext |-> NoFunc]
    /\ dials = [c \in Callers |-> NoDial]
    /\ others = {}

Init ==
    /\ input \in ({"data"} \X DataInputs) \cup ({"wire"} \X WireInputs)
    /\ d = IF input[1] = "data" THEN input[2] ELSE ZeroData
    /\ wire = IF input[1] = "wire" THEN input[2] ELSE NoWire
    /\ res = NoRes
    /\ ops = <<>>
    /\ EventIdle
    /\ ClientIdle
    /\ DialerIdle

\* the caller marshals the Data it holds
MarshalJSON ==
    /\ Len(ops) < MaxOps
    /\ \/ res.st = "ok"
       \/ ops = <<>> /\ input[1] = "data"
    /\ \E r \in {DataMarshalJSON(d)} :
          /\ wire' = IF r.st = "ok" THEN r.j ELSE wire
          /\ res' = [st |-> r.st, e |-> r.e]
    /\ ops' = Append(ops, "MarshalJSON")
    /\ UNCHANGED <<DefaultDialer, dials, others>>
    /\ UNCHANGED <<input, d, evt, calls, msg, body, got, inbox, client, sub, out>>

\* the caller unmarshals the document into a new Data or into the one it holds
UnmarshalJSON ==
    /\ Len(ops) < MaxOps
    /\ wire # NoWire
    /\ res.st \in {"ok", "none"}
    /\ \E recv \in {ZeroData, d} :
          \E r \in {DataUnmarshalJSON(recv, wire)} :
             /\ d' = r.d
             /\ res' = [st |-> r.st, e |-> r.e]
    /\ ops' = Append(ops, "UnmarshalJSON")
    /\ UNCHANGED <<DefaultDialer, dials, others>>
    /\ UNCHANGED <<input, wire, evt, calls, msg, body, got, inbox, client, sub, out>>

Next == MarshalJSON \/ UnmarshalJSON

Spec == Init /\ [][Next]_vars

----------------------------------------------------------------------------
(* Round trips of the codec *)

\* dd holds no timestamp and no timespan, at any depth
RECURSIVE Timeless(_)
Timeless(dd) ==
    /\ dd.DataType \notin {"timestamp", "timespan"}
    /\ CASE Kind(dd.DataValue) = "[]Data" ->
              \A i \in 1..Len(Val(dd.DataValue).v) : Timeless(Val(dd.DataValue).v[i])
         [] Kind(dd.DataValue) = "[]map[string]Data" ->
              \A i \in 1..Len(Val(dd.DataValue)) :
                  /\ Timeless(Val(dd.DataValue)[i].key)
                  /\ Timeless(Val(dd.DataValue)[i].value)
         [] OTHER -> TRUE

\* two wire objects are the same tagged value up to the formatting of their
\* payloads: they are the same document, or they decode to equal Data
SameWire(x, y) ==
    \/ x = y
    \/ \E a \in {DataUnmarshalJSON(ZeroData, x)} :
          \E b \in {DataUnmarshalJSON(ZeroData, y)} :
             a.st = "ok" /\ b.st = "ok" /\ DeepEqual(a.d, b.d)

\* C1: a Data built with the constructors (timestamps and timespans aside)
\* marshals, and unmarshaling the document it marshals to succeeds and gives a
\* Data structurally equal to it: the same tag and an equal payload.
C1_ConstructedRoundTrip ==
    (input[1] = "data" /\ Timeless(input[2]))
        => /\ ops = <<"MarshalJSON">> => res.st = "ok"
           /\ ops = <<"MarshalJSON", "UnmarshalJSON">>
                 => res.st = "ok" /\ DeepEqual(d, input[2])

\* C2: every valid wire object decodes, the decoded Data encodes, and the
\* document it encodes to is the same tagged value up to formatting.
C2_WireRoundTrip ==
    (input[1] = "wire" /\ input[2] \in WireValid)
        => /\ ops = <<"UnmarshalJSON">> => res.st = "ok"
           /\ ops = <<"UnmarshalJSON", "MarshalJSON">>
                 => res.st = "ok" /\ SameWire(wire, input[2])

\* C3: decoding a set with two equal elements, or a table with two equal
\* keys, returns an error, whatever the kind of the elements or keys is.
C3_DuplicateKeyIsError ==
    (/\ input[1] = "wire"
     /\ input[2] \in WireSets \cup WireTables
     /\ ~NoRepeat(input[2])
     /\ ops = <<"UnmarshalJSON">>)
        => res.st = "err"

\* C4: no operation of the codec panics: each ends with a value or an error.
C4_NoPanic == res.st # "panic"

----------------------------------------------------------------------------
(* The envelope: encoding.DataMessage.  A DataMessage is                    *)
(* [ConstType, Topic, Data], Data the pointer Nil or <<"*Data", d>>.  An    *)
(* error value is the pair of its Go type and what it carries.              *)

\* the error of fmt.Errorf or of encoding/json
ErrorString(text) == <<"error", text>>

\* an ErrorMessage with its two strings exchanged
ErrorMessageSwapped(code, context) ==
    <<"ErrorMessage", [ConstType |-> <<"e","r","r","o","r">>,
                       Code |-> context, Context |-> code]>>

\* encoding.ErrorMessage as an error
ErrorMessage(code, context) ==
    <<"ErrorMessage", [ConstType |-> <<"e","r","r","o","r">>,
                       Code |-> code, Context |-> context]>>

\* an unknown-type error that forgets the type
UnknownTypeErrorBlank(ts) == <<"DataMessageUnknownTypeError", [TypeValue |-> <<>>]>>

DataMessageUnknownTypeError(ts) == <<"DataMessageUnknownTypeError", [TypeValue |-> ts]>>

DataMessageType == <<"d","a","t","a","-","m","e","s","s","a","g","e">>

\* a result of an envelope operation: st is "ok", "err" or "panic"
MsgResult(st, dm, err) == [st |-> st, dm |-> dm, err |-> err]

\* DataMessage.UnmarshalJSON on the receiver dm
DataMessageUnmarshalJSON(dm, b) ==
    LET rawData == IF Kind(b) = "null" THEN {} ELSE Val(b)
        fail(m, text) == MsgResult("err", m, ErrorString(text))
        \* json.Unmarshal(b, &d.Data) allocates the Data when the pointer is nil
        payload(m, r) ==
            MsgResult(r.st, [m EXCEPT !.Data = <<"*Data", r.d>>],
                      IF r.st = "ok" THEN Nil ELSE ErrorString(r.e))
        topic(m) ==
            IF ~HasKey(rawData, "topic")
            THEN fail(m, "DataMessage is missing the topic property")
            ELSE IF Kind(Get(rawData, "topic")) # "str"
            THEN fail(m, "the DataMessage's topic property is not a string")
            ELSE payload([m EXCEPT !.Topic = Val(Get(rawData, "topic"))],
                         DataUnmarshalJSON(IF dm.Data = Nil THEN ZeroData ELSE dm.Data[2], b))
        error ==
            IF ~HasKey(rawData, "code")
            THEN fail(dm, "ErrorMessage is missing the code property")
            ELSE IF Kind(Get(rawData, "code")) # "str"
            THEN fail(dm, "the ErrorMessage's code property is not a string")
            ELSE IF ~HasKey(rawData, "context")
            THEN fail(dm, "ErrorMessage is missing the context property")
            ELSE IF Kind(Get(rawData, "context")) # "str"
            THEN fail(dm, "the ErrorMessage's context property is not a string")
            ELSE MsgResult("err", dm, ErrorMessage(Val(Get(rawData, "code")),
                                                   Val(Get(rawData, "context"))))
    IN  IF Kind(b) \notin {"obj", "null"}
        THEN fail(dm, "json: cannot unmarshal into Go value of type map[string]interface {}")
        ELSE IF ~HasKey(rawData, "type")
        THEN fail(dm, "DataMessage is missing the type property")
        ELSE IF Kind(Get(rawData, "type")) # "str"
        THEN fail(dm, "the DataMessage's type property is not a string")
        ELSE IF Val(Get(rawData, "type")) # DataMessageType
        THEN IF Val(Get(rawData, "type")) # <<"e","r","r","o","r">>
             THEN MsgResult("err", dm, DataMessageUnknownTypeError(Val(Get(rawData, "type"))))
             ELSE error
        ELSE topic([dm EXCEPT !.ConstType = Val(Get(rawData, "type"))])

\* DataMessage.MarshalJSON: the map of the four properties; d.Data.DataValue
\* is encoded as the interface value it is, and a nil d.Data is dereferenced
DataMessageMarshalJSON(dm) ==
    LET object(r) ==
            IF r.st # "ok" THEN r
            ELSE EncOk(JObj({ <<"type", JStr(dm.ConstType)>>,
                              <<"topic", JStr(dm.Topic)>>,
                              <<"@data-type", JStr(TypeString(dm.Data[2].DataType))>>,
                              <<"data", r.j>> }))
    IN  IF dm.Data = Nil
        THEN [st |-> "panic", j |-> JNull, e |-> "nil pointer dereference"]
        ELSE object(encodeValue(dm.Data[2].DataValue))

----------------------------------------------------------------------------
(* JSON text.  The bytes of a document are a sequence of one-character     *)
(* strings; a property name is kept as one element.                        *)

\* the six characters \u00XX that stand for an HTML character
HTMLEscape(c) ==
    <<"\\", "u", "0", "0">>
        \o (IF c = "<" THEN <<"3", "c">> ELSE IF c = ">" THEN <<"3", "e">> ELSE <<"2", "6">>)

RECURSIVE Concat(_)
\* the sequences of ss one after the other
Concat(ss) ==
    IF Len(ss) = 0 THEN <<>>
    ELSE IF Len(ss) = 1 THEN ss[1]
    ELSE LET h == Len(ss) \div 2
         IN  Concat(SubSeq(ss, 1, h)) \o Concat(SubSeq(ss, h + 1, Len(ss)))

\* encoding/json appendString: the literal of s between quotes; the quote
\* and the backslash are escaped, and <, > and & when escapeHTML is set
appendString(s, escapeHTML) ==
    <<"\"">>
        \o Concat([i \in 1..Len(s) |->
                      IF s[i] \in {"\"", "\\"} THEN <<"\\", s[i]>>
                      ELSE IF escapeHTML /\ s[i] \in {"<", ">", "&"} THEN HTMLEscape(s[i])
                      ELSE <<s[i]>>])
        \o <<"\"">>

\* the property names the encoders write, in the byte order encoding/json
\* sorts the keys of a map and the fields of the structs come in
KeyOrder ==
    <<"@data-type", "IP", "Mask", "Port", "Protocol", "data", "key", "topic", "type", "value">>

RECURSIVE encodeText(_, _)
\* the bytes encoding/json writes for the document j
encodeText(j, escapeHTML) ==
    LET joined(ts) ==
            Concat([i \in 1..Len(ts) |-> (IF i = 1 THEN <<>> ELSE <<",">>) \o ts[i]])
    IN  CASE Kind(j) = "null" -> <<"n","u","l","l">>
          [] Kind(j) = "bool" ->
                IF Val(j) THEN <<"t","r","u","e">> ELSE <<"f","a","l","s","e">>
          [] Kind(j) = "num" -> Val(j)
          [] Kind(j) = "str" -> appendString(Val(j), escapeHTML)
          [] Kind(j) = "arr" ->
                <<"[">> \o joined([i \in 1..Len(Val(j)) |-> encodeText(Val(j)[i], escapeHTML)])
                    \o <<"]">>
          [] Kind(j) = "obj" ->
                LET keys == SelectSeq(KeyOrder, LAMBDA k : HasKey(Val(j), k))
                IN  <<"{">>
                        \o joined([i \in 1..Len(keys) |->
                                      <<"\"", keys[i], "\"", ":">>
                                          \o encodeText(Get(Val(j), keys[i]), escapeHTML)])
                        \o <<"}">>

\* encoding/json compact, applied to the bytes a MarshalJSON method returned:
\* the line end is dropped, and <, > and & are escaped when the encoder that
\* called the method escapes HTML
appendCompact(src, escapeHTML) ==
    Concat([i \in 1..Len(src) |->
               IF src[i] = "\n" THEN <<>>
               ELSE IF escapeHTML /\ src[i] \in {"<", ">", "&"} THEN HTMLEscape(src[i])
               ELSE <<src[i]>>])

\* the bytes DataMessage.MarshalJSON returns for the document j it built: its
\* encoder does not escape HTML, and Encode ends the text with a line end
DataMessageBytes(j) == encodeText(j, FALSE) \o <<"\n">>

\* websocket.Conn.WriteJSON(v) for a DataMessage: json.NewEncoder(w).Encode(v)
\* calls v.MarshalJSON and compacts what it returns; an encoder escapes HTML
\* unless SetEscapeHTML(false) was called on it
WriteJSON(dm) ==
    LET frame(r) ==
            IF r.st # "ok" THEN [st |-> r.st, e |-> r.e, bytes |-> <<>>]
            ELSE [st |-> "ok", e |-> "",
                  bytes |-> appendCompact(DataMessageBytes(r.j), TRUE) \o <<"\n">>]
    IN  frame(DataMessageMarshalJSON(dm))

----------------------------------------------------------------------------
(* The event: encoding.Event is [Name, Arguments, Metadata], the two last   *)
(* slices [v, isnil]; an EventMetaEntry is [ID, Value].                     *)

websocketNormalEOFCode == 1000

eventToplevelVectorLen == 3

eventSignatureVectorLen == 2

EventMetaDataTypeTimestamp == 1

\* the []Data held by dd, when dd.DataValue.([]Data) succeeds
IsSlice(dd) == Kind(dd.DataValue) = "[]Data"

Elems(dd) == Val(dd.DataValue).v

\* a result of GetEvent: on an error the topic and the Event are empty
EventResult(st, topic, e, err) == [st |-> st, topic |-> topic, evt |-> e, err |-> err]

EventError(text) == EventResult("err", <<>>, ZeroEvent, ErrorString(text))

\* a GetEvent that takes any count as format number and message type
LeadingErrorAnyCount(dd, invalidType, invalidValue) ==
    IF dd.DataType # "count" THEN invalidType
    ELSE IF Kind(dd.DataValue) # "uint64" THEN invalidType
    ELSE ""

\* the checks of GetEvent on its two leading elements, the format number
\* and the message type: the error it returns, or "" when dd is the count 1
LeadingError(dd, invalidType, invalidValue) ==
    IF dd.DataType # "count" THEN invalidType
    ELSE IF Kind(dd.DataValue) # "uint64" THEN invalidType
    ELSE IF Val(dd.DataValue) # IntOf(1) THEN invalidValue
    ELSE ""

\* a GetEvent that takes a signature of the name alone
SignatureErrorNameOnly(sig) ==
    IF Len(sig) < 1 THEN "event signature is empty"
    ELSE IF sig[1].DataType # "string" THEN "event name has invalid type"
    ELSE IF Kind(sig[1].DataValue) # "string" THEN "event name has invalid type"
    ELSE IF Len(sig) < eventSignatureVectorLen THEN ""
    ELSE IF sig[2].DataType # "vector" THEN "event arguments has invalid type"
    ELSE IF ~IsSlice(sig[2]) THEN "event arguments has invalid type"
    ELSE ""

\* a GetEvent that asks for at least one argument
SignatureErrorNoEmptyArguments(sig) ==
    IF Len(sig) < 1 THEN "event signature is empty"
    ELSE IF sig[1].DataType # "string" THEN "event name has invalid type"
    ELSE IF Kind(sig[1].DataValue) # "string" THEN "event name has invalid type"
    ELSE IF Len(sig) < eventSignatureVectorLen THEN "event has too few signature elements"
    ELSE IF sig[2].DataType # "vector" THEN "event arguments has invalid type"
    ELSE IF ~IsSlice(sig[2]) THEN "event arguments has invalid type"
    ELSE IF Len(Elems(sig[2])) < 1 THEN "event has too few signature elements"
    ELSE ""

\* the checks of GetEvent on the signature sig, the name and the arguments:
\* the error it returns, or "" when both are taken
SignatureError(sig) ==
    IF Len(sig) < 1 THEN "event signature is empty"
    ELSE IF sig[1].DataType # "string" THEN "event name has invalid type"
    ELSE IF Kind(sig[1].DataValue) # "string" THEN "event name has invalid type"
    ELSE IF Len(sig) < eventSignatureVectorLen THEN "event has too few signature elements"
    ELSE IF sig[2].DataType # "vector" THEN "event arguments has invalid type"
    ELSE IF ~IsSlice(sig[2]) THEN "event arguments has invalid type"
    ELSE ""

\* checks that take an entry whatever the kind of its id is
MetaEntryErrorAnyID(me) ==
    IF me.DataType # "vector" THEN "event metadata entry has invalid encoded type"
    ELSE IF ~IsSlice(me) THEN "event metadata entry has invalid parsed type"
    ELSE IF Len(Elems(me)) # 2 THEN "event metadata entry has incorrect length"
    ELSE ""

\* the checks of GetEvent's loop on the metadata entry me: the error it
\* returns, or "" when the entry is taken
MetaEntryError(me) ==
    IF me.DataType # "vector" THEN "event metadata entry has invalid encoded type"
    ELSE IF ~IsSlice(me) THEN "event metadata entry has invalid parsed type"
    ELSE IF Len(Elems(me)) # 2 THEN "event metadata entry has incorrect length"
    ELSE IF Elems(me)[1].DataType # "count"
    THEN "event metadata entry type ID has invalid encoded type"
    ELSE IF Kind(Elems(me)[1].DataValue) # "uint64"
    THEN "event metadata entry type ID has invalid parsed type"
    ELSE ""

\* DataMessage.GetEvent
DataMessageGetEvent(dm) ==
    LET vec == Elems(dm.Data[2])
        sig == Elems(vec[3])
        \* the loop over the metadata entries stops at the first bad one
        bad(metadata) == {i \in 1..Len(metadata) : MetaEntryError(metadata[i]) # ""}
        metaList(metadata) ==
            [v |-> [i \in 1..Len(metadata) |->
                       [ID |-> Val(Elems(metadata[i])[1].DataValue),
                        Value |-> Elems(metadata[i])[2]]],
             isnil |-> FALSE]
        event(metadata) ==
            [Name |-> Val(sig[1].DataValue),
             \* evt.Arguments is assigned once the signature has its two elements
             Arguments |-> IF Len(sig) < eventSignatureVectorLen THEN NilSlice
                           ELSE Val(sig[2].DataValue),
             Metadata |-> metadata]
    IN  IF dm.Data = Nil
        THEN EventResult("panic", <<>>, ZeroEvent, ErrorString("nil pointer dereference"))
        ELSE IF dm.Data[2].DataType # "vector"
        THEN EventError("expected data type for event to be a vector")
        ELSE IF ~IsSlice(dm.Data[2]) THEN EventError("vector value has invalid type")
        ELSE IF Len(vec) # eventToplevelVectorLen
        THEN EventError("vector value has invalid length")
        ELSE IF LeadingError(vec[1], "event format number has invalid type",
                             "event format number has invalid value") # ""
        THEN EventError(LeadingError(vec[1], "event format number has invalid type",
                                     "event format number has invalid value"))
        ELSE IF LeadingError(vec[2], "event message type has invalid type",
                             "event message type has invalid value") # ""
        THEN EventError(LeadingError(vec[2], "event message type has invalid type",
                                     "event message type has invalid value"))
        ELSE IF vec[3].DataType # "vector"
        THEN EventError("event signature has invalid type")
        ELSE IF ~IsSlice(vec[3]) THEN EventError("event signature has invalid type")
        ELSE IF SignatureError(sig) # "" THEN EventError(SignatureError(sig))
        ELSE IF Len(sig) > eventSignatureVectorLen
        THEN IF sig[3].DataType # "vector"
             THEN EventError("event metadata has invalid encoded type")
             ELSE IF ~IsSlice(sig[3])
             THEN EventError("event metadata has invalid parsed type")
             ELSE IF bad(Elems(sig[3])) # {}
             THEN EventError(MetaEntryError(Elems(sig[3])[Min(bad(Elems(sig[3])))]))
             ELSE EventResult("ok", dm.Topic, event(metaList(Elems(sig[3]))), Nil)
        ELSE EventResult("ok", dm.Topic, event(NilSlice), Nil)

\* NewEvent(name, arguments...): arguments is the slice [v, isnil]
NewEvent(name, arguments) ==
    [Name |-> name, Arguments |-> arguments, Metadata |-> NilSlice]

\* a metadata entry encoded value first
EventMetaEntryEncodeSwapped(e) == Vector(<<e.Value, Count(e.ID)>>)

\* EventMetaEntry.Encode
EventMetaEntryEncode(e) == Vector(<<Count(e.ID), e.Value>>)

\* the vector (name, arguments) both branches of Event.Encode build
EventSignature(e) == Vector(<<String(e.Name), VectorOf(e.Arguments)>>)

\* an Encode that emits the metadata vector whether there are entries or not
EventEncodeAlwaysMetadata(e, topic) ==
    [ConstType |-> DataMessageType,
     Topic |-> topic,
     Data |-> <<"*Data",
                Vector(<<Count(IntOf(1)), Count(IntOf(1)), EventSignature(e),
                         Vector([i \in 1..Len(e.Metadata.v) |->
                                    [DataType |-> "vector",
                                     DataValue |-> GoSlice(<<Count(e.Metadata.v[i].ID),
                                                            e.Metadata.v[i].Value>>)]])>>)>>]

\* Event.Encode
EventEncode(e, topic) ==
    [ConstType |-> DataMessageType,
     Topic |-> topic,
     Data |-> <<"*Data",
                IF Len(e.Metadata.v) > 0
                THEN Vector(<<Count(IntOf(1)), Count(IntOf(1)), EventSignature(e),
                              Vector([i \in 1..Len(e.Metadata.v) |->
                                         EventMetaEntryEncode(e.Metadata.v[i])])>>)
                ELSE Vector(<<Count(IntOf(1)), Count(IntOf(1)), EventSignature(e)>>)>>]

\* Event.SetMetadata
EventSetMetadata(e, id, value, replace) ==
    LET em == [ID |-> IntOf(id), Value |-> value]
    IN  IF ~replace
        THEN [e EXCEPT !.Metadata = [v |-> Append(e.Metadata.v, em), isnil |-> FALSE]]
        ELSE [e EXCEPT !.Metadata.v =
                 [i \in 1..Len(e.Metadata.v) |->
                     IF e.Metadata.v[i].ID = IntOf(id) THEN em ELSE e.Metadata.v[i]]]

\* Event.SetTimestamp: timestamp is the time handed over, or time.Now()
EventSetTimestamp(e, timestamp) ==
    EventSetMetadata(e, EventMetaDataTypeTimestamp, Timestamp(timestamp), TRUE)

\* Event.DeleteMetadata
EventDeleteMetadata(e, id) ==
    LET keep(m) == m.ID # IntOf(id)
    IN  [e EXCEPT !.Metadata = [v |-> SelectSeq(e.Metadata.v, keep), isnil |-> FALSE]]

----------------------------------------------------------------------------
(* The handshake: encoding.AckMessage read by websocket.Conn.ReadJSON *)

\* json.Decoder.Decode into the struct AckMessage: null leaves it as it is,
\* an object fills the fields named type, endpoint and version that hold a
\* string, and reports a property of another kind as an error
AckUnmarshalJSON(b) ==
    LET field(k) ==
            IF HasKey(Val(b), k) /\ Kind(Get(Val(b), k)) = "str"
            THEN Val(Get(Val(b), k)) ELSE <<>>
        mistyped(k) == HasKey(Val(b), k) /\ Kind(Get(Val(b), k)) \notin {"str", "null"}
        zero == [ConstType |-> <<>>, EndpointUUID |-> <<>>, Version |-> <<>>]
    IN  IF Kind(b) = "null" THEN [st |-> "ok", ack |-> zero]
        ELSE IF Kind(b) # "obj" THEN [st |-> "err", ack |-> zero]
        ELSE [st |-> IF \E k \in {"type", "endpoint", "version"} : mistyped(k)
                     THEN "err" ELSE "ok",
              ack |-> [ConstType |-> field("type"),
                       EndpointUUID |-> field("endpoint"),
                       Version |-> field("version")]]

----------------------------------------------------------------------------
(* The events, envelopes and handshakes the machine is run on *)

MaxCalls == 3

MaxInbox == 2

Ping == <<"p","i","n","g">>

Topics == { <<"/","t">>, <<>> }

\* the Events NewEvent builds
NewEvents ==
    { NewEvent(n, a) : n \in {Ping, <<>>},
                       a \in { NilSlice,
                               [v |-> <<String(Abc), Count(IntOf(2))>>, isnil |-> FALSE] } }
        \cup { NewEvent(Html, [v |-> <<String(Amp)>>, isnil |-> FALSE]) }

\* the Events a publisher publishes: without and with HTML characters
PublishedEvents ==
    { NewEvent(Ping, NilSlice), NewEvent(Html, [v |-> <<String(Amp)>>, isnil |-> FALSE]) }

MetaIDs == { EventMetaDataTypeTimestamp, 2 }

Times ==
    { [Y |-> 2006, Mo |-> 1, D |-> 2, h |-> 15, mi |-> 4, s |-> 5, ns |-> 0, off |-> 0],
      [Y |-> 2023, Mo |-> 6, D |-> 1, h |-> 0, mi |-> 0, s |-> 0, ns |-> 500000000, off |-> 0] }

MetaValues == { String(Abc) }

\* wire forms of the elements of an event payload
WCount(n) == W("count", JNum(n))

WVector(a) == W("vector", JArr(a))

\* format number and message type: the count 1, another count, another kind
WireLeading == { WCount(<<"1">>), WCount(<<"2">>), W("string", JStr(<<"1">>)) }

WireMeta ==
    { WVector(<<>>),
      WVector(<<WVector(<<WCount(<<"1">>),
                          W("timestamp", JStr(<<"2","0","0","6","-","0","1","-","0","2","T",
                                "1","5",":","0","4",":","0","5",".","0","0","0">>))>>)>>),
      WVector(<<WVector(<<WCount(<<"1">>)>>)>>),
      WVector(<<WVector(<<WCount(<<"2">>), W("string", JStr(Abc))>>),
                WVector(<<WCount(<<"1">>), WCount(<<"7">>)>>)>>),
      WVector(<<WVector(<<W("string", JStr(Abc)), WCount(<<"1">>)>>)>>),
      WVector(<<WCount(<<"1">>)>>),
      WCount(<<"1">>) }

\* the signature: (name, arguments), name alone, empty, with metadata as a
\* third element, or no vector
WireSignatures ==
    { WVector(<<W("string", JStr(Ping)), WVector(<<WCount(<<"7">>)>>)>>),
      WVector(<<W("string", JStr(Ping)), WVector(<<W("string", JStr(Abc)), WCount(<<"2">>)>>)>>),
      WVector(<<W("string", JStr(Ping)), WVector(<<>>)>>),
      WVector(<<W("string", JStr(Ping))>>),
      WVector(<<>>),
      WVector(<<WCount(<<"1">>), WVector(<<>>)>>),
      WCount(<<"1">>) }
        \cup { WVector(<<W("string", JStr(Ping)), WVector(<<>>), m>>) : m \in WireMeta }

\* payloads of data-message envelopes
WirePayloads ==
    { WVector(<<a, b, sg>>) : a \in WireLeading, b \in WireLeading, sg \in WireSignatures }
        \cup { WVector(<<WCount(<<"1">>), WCount(<<"1">>)>>),
               WVector(<<>>),
               WVector(<<WCount(<<"1">>), WCount(<<"1">>),
                         WVector(<<W("string", JStr(Ping)), WVector(<<>>)>>),
                         WVector(<<>>)>>),
               WCount(<<"1">>),
               W("set", JArr(<<W("address", JStr(<<"1",".","2",".","3",".","4">>))>>)),
               W("count", JStr(<<"1">>)) }

\* the envelope of type t on topic with the payload p
Envelope(t, topic, p) == JObj(Val(p) \cup { <<"type", JStr(t)>>, <<"topic", topic>> })

DataEnvelopes ==
    { Envelope(DataMessageType, JStr(t), p) : t \in Topics, p \in WirePayloads }
        \cup { JObj(Val(WCount(<<"1">>)) \cup { <<"type", JStr(DataMessageType)>> }),
               Envelope(DataMessageType, JNum(<<"1">>), WCount(<<"1">>)) }

ErrorEnvelopes ==
    { JObj({ <<"type", JStr(<<"e","r","r","o","r">>)>>, <<"code", c>>, <<"context", x>> }) :
          c \in { JStr(<<"d","e","s","e","r">>), JStr(<<>>), JNum(<<"1">>) },
          x \in { JStr(<<"b","a","d">>), JStr(<<>>), JNull } }
        \cup { JObj({ <<"type", JStr(<<"e","r","r","o","r">>)>> }),
               JObj({ <<"type", JStr(<<"e","r","r","o","r">>)>>, <<"code", JStr(<<>>)>> }) }

AckEnvelope(uuid, version) ==
    JObj({ <<"type", JStr(<<"a","c","k">>)>>, <<"endpoint", JStr(uuid)>>,
           <<"version", JStr(version)>> })

OtherEnvelopes ==
    { AckEnvelope(<<"u","1">>, <<"2",".","7">>),
      JObj({ <<"type", JStr(<<"a","c","k">>)>>, <<"endpoint", JNum(<<"1">>)>> }),
      JObj({ <<"type", JStr(<<"p","i","n","g">>)>>, <<"topic", JStr(<<"/","t">>)>> }),
      JObj({ <<"type", JStr(<<>>)>> }),
      JObj({ <<"type", JNum(<<"1">>)>> }),
      JObj({ <<"topic", JStr(<<"/","t">>)>> }),
      JObj({}),
      JArr(<<>>),
      JNull }

Envelopes == DataEnvelopes \cup ErrorEnvelopes \cup OtherEnvelopes

\* what a server sends first, and next
InboxDocs ==
    { AckEnvelope(<<"u","1">>, <<"2",".","7">>),
      JObj({ <<"type", JStr(<<"a","c","k">>)>>, <<"endpoint", JNum(<<"1">>)>> }),
      JObj({ <<"type", JStr(<<"p","i","n","g">>)>>, <<"topic", JStr(<<"/","t">>)>> }),
      JArr(<<>>),
      JObj({ <<"type", JStr(<<"e","r","r","o","r">>)>>,
             <<"code", JStr(<<"d","e","s","e","r">>)>>,
             <<"context", JStr(<<"b","a","d">>)>> }),
      JObj({ <<"type", JStr(<<"e","r","r","o","r">>)>>, <<"code", JStr(<<>>)>> }) }
        \cup { Envelope(DataMessageType, JStr(<<"/","t">>), p) :
                  p \in { WVector(<<WCount(<<"1">>), WCount(<<"1">>),
                                    WVector(<<W("string", JStr(Ping)), WVector(<<>>)>>)>>),
                          WVector(<<WCount(<<"2">>), WCount(<<"1">>),
                                    WVector(<<W("string", JStr(Ping)), WVector(<<>>)>>)>>),
                          WCount(<<"1">>) } }

----------------------------------------------------------------------------
(* Events, envelopes and the Client as a state machine.  A run is one of:   *)
(* a caller building an Event and encoding it; a caller decoding a received *)
(* envelope; a caller connecting to a server and reading its messages.      *)

\* the result got of the operation op
Got(op, st, topic, e, err) == [op |-> op, st |-> st, topic |-> topic, evt |-> e, err |-> err]

InitEvent ==
    /\ d = ZeroData /\ wire = NoWire /\ res = NoRes /\ ops = <<>>
    /\ calls = <<>>
    /\ msg = ZeroDataMessage
    /\ got = NoGot
    /\ client = NoClient
    /\ sub = NoSub
    /\ out = <<>>
    /\ DialerIdle
    /\ \/ /\ input = <<"event", 0>>
          /\ evt \in NewEvents
          /\ body = NoWire
          /\ inbox = <<>>
       \/ /\ input = <<"envelope", 0>>
          /\ evt = ZeroEvent
          /\ body \in Envelopes
          /\ inbox = <<>>
       \/ /\ input = <<"client", 0>>
          /\ evt = ZeroEvent
          /\ body = NoWire
          /\ inbox \in SeqsUpTo(InboxDocs, MaxInbox)
       \/ /\ input = <<"publisher", 0>>
          /\ evt \in PublishedEvents
          /\ body = NoWire
          /\ inbox = <<AckEnvelope(<<"u","1">>, <<"2",".","7">>)>>

\* the caller calls e.SetMetadata(id, value, replace); a caller builds its
\* Event with at most MaxCalls calls and encodes it then
SetMetadata ==
    /\ input[1] = "event"
    /\ msg = ZeroDataMessage
    /\ Len(calls) < MaxCalls
    /\ \E id \in MetaIDs, value \in MetaValues, replace \in BOOLEAN :
          evt' = EventSetMetadata(evt, id, value, replace)
    /\ calls' = Append(calls, "SetMetadata")
    /\ got' = Got("SetMetadata", "ok", <<>>, ZeroEvent, Nil)
    /\ UNCHANGED <<DefaultDialer, dials, others>>
    /\ UNCHANGED <<input, d, wire, res, ops, msg, body, inbox, client, sub, out>>

\* the caller calls e.SetTimestamp(timestamp); a nil timestamp stands for
\* the current time, which is any time
SetTimestamp ==
    /\ input[1] = "event"
    /\ msg = ZeroDataMessage
    /\ Len(calls) < MaxCalls
    /\ \E timestamp \in Times : evt' = EventSetTimestamp(evt, timestamp)
    /\ calls' = Append(calls, "SetTimestamp")
    /\ got' = Got("SetTimestamp", "ok", <<>>, ZeroEvent, Nil)
    /\ UNCHANGED <<DefaultDialer, dials, others>>
    /\ UNCHANGED <<input, d, wire, res, ops, msg, body, inbox, client, sub, out>>

\* the caller calls e.DeleteMetadata(id)
DeleteMetadata ==
    /\ input[1] = "event"
    /\ msg = ZeroDataMessage
    /\ Len(calls) < MaxCalls
    /\ \E id \in MetaIDs : evt' = EventDeleteMetadata(evt, id)
    /\ calls' = Append(calls, "DeleteMetadata")
    /\ got' = Got("DeleteMetadata", "ok", <<>>, ZeroEvent, Nil)
    /\ UNCHANGED <<DefaultDialer, dials, others>>
    /\ UNCHANGED <<input, d, wire, res, ops, msg, body, inbox, client, sub, out>>

\* the caller calls e.Encode(topic)
Encode ==
    /\ input[1] = "event"
    /\ body = NoWire
    /\ \E topic \in Topics :
          /\ msg' = EventEncode(evt, topic)
          /\ got' = Got("Encode", "ok", topic, ZeroEvent, Nil)
    /\ UNCHANGED <<DefaultDialer, dials, others>>
    /\ UNCHANGED <<input, d, wire, res, ops, evt, calls, body, inbox, client, sub, out>>

\* the caller marshals the DataMessage Encode returned
MarshalMessage ==
    /\ got.op = "Encode"
    /\ \E r \in {DataMessageMarshalJSON(msg)} :
          /\ body' = IF r.st = "ok" THEN r.j ELSE body
          /\ out' = IF r.st = "ok" THEN DataMessageBytes(r.j) ELSE <<>>
          /\ got' = Got("MarshalJSON", r.st, <<>>, ZeroEvent,
                        IF r.st = "ok" THEN Nil ELSE ErrorString(r.e))
    /\ UNCHANGED <<DefaultDialer, dials, others>>
    /\ UNCHANGED <<input, d, wire, res, ops, evt, calls, msg, inbox, client, sub>>

\* the caller unmarshals the envelope body into a new DataMessage
UnmarshalMessage ==
    /\ body # NoWire
    /\ \/ got.op = "none" /\ input[1] = "envelope"
       \/ got.op = "MarshalJSON" /\ got.st = "ok"
    /\ \E r \in {DataMessageUnmarshalJSON(ZeroDataMessage, body)} :
          /\ msg' = r.dm
          /\ got' = Got("UnmarshalJSON", r.st, <<>>, ZeroEvent, r.err)
    /\ UNCHANGED <<DefaultDialer, dials, others>>
    /\ UNCHANGED <<input, d, wire, res, ops, evt, calls, body, inbox, client, sub, out>>

\* the caller extracts the event of the DataMessage it encoded or decoded
GetEvent ==
    /\ \/ got.op = "Encode"
       \/ got.op = "UnmarshalJSON" /\ got.st = "ok"
    /\ \E r \in {DataMessageGetEvent(msg)} :
          got' = Got("GetEvent", r.st, r.topic, r.evt, r.err)
    /\ UNCHANGED <<DefaultDialer, dials, others>>
    /\ UNCHANGED <<input, d, wire, res, ops, evt, calls, msg, body, inbox, client, sub, out>>

\* client.NewClient: tls is how secure and tlsDialFunc are given, dial and
\* write whether DialContext and WriteJSON succeed; ReadJSON takes the first
\* message of the server, or fails when the server sent none
NewClient ==
    /\ input[1] \in {"client", "publisher"}
    /\ got.op = "none"
    /\ \E tls \in {"off", "func", "nofunc"}, dial \in BOOLEAN, write \in BOOLEAN :
          IF tls = "nofunc"
          THEN /\ got' = Got("NewClient", "err", <<>>, ZeroEvent,
                             ErrorString("a TLSDialFunc must be provided in secure mode"))
               /\ UNCHANGED <<client, inbox, body>>
          ELSE IF ~dial \/ ~write \/ inbox = <<>>
          THEN /\ got' = Got("NewClient", "err", <<>>, ZeroEvent,
                             ErrorString(IF ~dial THEN "dial" ELSE IF ~write THEN "write"
                                         ELSE "read"))
               /\ UNCHANGED <<client, inbox, body>>
          ELSE \E r \in {AckUnmarshalJSON(Head(inbox))} :
                  /\ inbox' = Tail(inbox)
                  /\ body' = Head(inbox)
                  /\ client' = IF r.st = "ok"
                               THEN [isnil |-> FALSE,
                                     endpointUUID |-> r.ack.EndpointUUID,
                                     endpointVersion |-> r.ack.Version]
                               ELSE NoClient
                  /\ got' = Got("NewClient", r.st, <<>>, ZeroEvent,
                                IF r.st = "ok" THEN Nil ELSE ErrorString("json"))
    /\ UNCHANGED <<DefaultDialer, dials, others>>
    /\ UNCHANGED <<input, d, wire, res, ops, evt, calls, msg, sub, out>>

\* the errors of the transport: *websocket.CloseError with its code,
\* *net.OpError with the text of its cause, any other error
CloseError(code) == <<"*websocket.CloseError", [Code |-> code]>>

OpError(text) == <<"*net.OpError", [Err |-> text]>>

\* the errors ReadJSON returns once the connection has failed or was closed
TransportErrors ==
    { CloseError(websocketNormalEOFCode), CloseError(1006),
      OpError("use of closed network connection"), OpError("connection reset by peer"),
      ErrorString("unexpected EOF") }

\* the connection fails or is closed, by the peer or by the caller, once the
\* messages of the peer were delivered: every read from then on returns the
\* error.  Until then a read with nothing to read blocks.
ConnectionFails ==
    /\ ~client.isnil
    /\ inbox = <<>>
    /\ \E err \in TransportErrors : inbox' = <<err>>
    /\ UNCHANGED <<DefaultDialer, dials, others>>
    /\ UNCHANGED <<input, d, wire, res, ops, evt, calls, msg, body, got, client, sub, out>>

\* Client.ReadEvent on what the connection has next, a message x of the peer
\* or the error of the connection: ReadJSON into a new DataMessage, then
\* GetEvent.  The result, with the DataMessage read into.
ClientReadEvent(x) ==
    LET read(r) ==
            IF r.st # "ok"
            THEN [dm |-> r.dm, e |-> EventResult(r.st, <<>>, ZeroEvent, r.err)]
            ELSE [dm |-> r.dm, e |-> DataMessageGetEvent(r.dm)]
    IN  IF x \in TransportErrors
        THEN [dm |-> ZeroDataMessage, e |-> EventResult("err", <<>>, ZeroEvent, x)]
        ELSE read(DataMessageUnmarshalJSON(ZeroDataMessage, x))

\* the caller calls Client.ReadEvent
ReadEvent ==
    /\ ~client.isnil
    /\ sub.pc = "none"
    /\ inbox # <<>>
    /\ \E r \in {ClientReadEvent(Head(inbox))} :
          /\ msg' = r.dm
          /\ got' = Got("ReadEvent", r.e.st, r.e.topic, r.e.evt, r.e.err)
    /\ inbox' = IF Head(inbox) \in TransportErrors THEN inbox ELSE Tail(inbox)
    /\ body' = IF Head(inbox) \in TransportErrors THEN NoWire ELSE Head(inbox)
    /\ UNCHANGED <<DefaultDialer, dials, others>>
    /\ UNCHANGED <<input, d, wire, res, ops, evt, calls, client, sub, out>>

\* Client.PublishEvent(topic, evt) on the Event the caller built: the
\* DataMessage evt.Encode(topic) is handed to WriteJSON; write is whether the
\* connection takes the frame
PublishEvent ==
    /\ input[1] = "publisher"
    /\ ~client.isnil
    /\ \E topic \in Topics, write \in BOOLEAN :
          \E r \in {WriteJSON(EventEncode(evt, topic))} :
             /\ out' = IF write /\ r.st = "ok" THEN r.bytes ELSE out
             /\ got' = Got("PublishEvent", IF write THEN r.st ELSE "err", topic, ZeroEvent,
                           IF ~write THEN ErrorString("write")
                           ELSE IF r.st = "ok" THEN Nil ELSE ErrorString(r.e))
    /\ UNCHANGED <<DefaultDialer, dials, others>>
    /\ UNCHANGED <<input, d, wire, res, ops, evt, calls, msg, body, inbox, client, sub>>

\* AsyncSubscription(ctx, broker, hm, eh): a nil EventHandler panics, and
\* otherwise the goroutine of the loop is started
AsyncSubscription ==
    /\ ~client.isnil
    /\ sub.pc = "none"
    /\ \E hm \in BOOLEAN, eh \in BOOLEAN :
          /\ sub' = [sub EXCEPT !.pc = IF hm THEN "loop" ELSE "panic",
                                 !.hm = hm, !.eh = eh]
          /\ got' = Got("AsyncSubscription", IF hm THEN "ok" ELSE "panic", <<>>, ZeroEvent, Nil)
    /\ UNCHANGED <<DefaultDialer, dials, others>>
    /\ UNCHANGED <<input, d, wire, res, ops, evt, calls, msg, body, inbox, client, out>>

\* the caller cancels the context of the subscription, at any moment of the
\* goroutine
Cancel ==
    /\ sub.pc \in {"loop", "read"}
    /\ sub.ctx = "live"
    /\ sub' = [sub EXCEPT !.ctx = "done"]
    /\ UNCHANGED <<DefaultDialer, dials, others>>
    /\ UNCHANGED <<input, d, wire, res, ops, evt, calls, msg, body, got, inbox, client, out>>

\* what the loop does with the result r of ReadEvent: return, call the
\* ErrorHandler and return or go on, or call the EventHandler and go on;
\* calling the nil ErrorHandler is a nil function call, which panics
Dispatch(s, r) ==
    LET report(pc) == IF s.eh THEN [s EXCEPT !.pc = pc, !.reported = r.err,
                                             !.turn = << <<"eh", r.err>> >>]
                      ELSE [s EXCEPT !.pc = "panic", !.turn = <<>>]
        return == [s EXCEPT !.pc = "done", !.turn = <<>>]
    IN  IF r.st = "panic" THEN [s EXCEPT !.pc = "panic", !.turn = <<>>]
        ELSE IF r.err # Nil
        THEN IF Kind(r.err) = "*websocket.CloseError"
             THEN IF Val(r.err).Code = websocketNormalEOFCode
                  THEN return
                  ELSE report("done")
             ELSE IF Kind(r.err) = "*net.OpError"
                     /\ Val(r.err).Err = "use of closed network connection"
             THEN return
             ELSE report("loop")
        ELSE [s EXCEPT !.pc = "loop", !.handled = s.handled + 1,
                       !.turn = << <<"hm", r.topic, r.evt>> >>]

\* the select of the loop of AsyncSubscription: the goroutine returns when
\* ctx.Done() is closed, and calls broker.ReadEvent() otherwise
SubscriptionLoop ==
    /\ sub.pc = "loop"
    /\ sub' = [sub EXCEPT !.pc = IF sub.ctx = "done" THEN "done" ELSE "read"]
    /\ UNCHANGED <<DefaultDialer, dials, others>>
    /\ UNCHANGED <<input, d, wire, res, ops, evt, calls, msg, body, got, inbox, client, out>>

\* what ReadEvent returns for each thing the connection can deliver, as a
\* table (evaluated once)
ReadResults ==
    [x \in InboxDocs \cup TransportErrors |-> ClientReadEvent(x)]

\* broker.ReadEvent() returns to the loop, which had been waiting for it
\* since the select, and the loop handles what it returned
SubscriptionRead ==
    /\ sub.pc = "read"
    /\ inbox # <<>>
    /\ \E r \in {ReadResults[Head(inbox)]} :
          /\ msg' = r.dm
          /\ got' = Got("ReadEvent", r.e.st, r.e.topic, r.e.evt, r.e.err)
          /\ sub' = Dispatch(sub, r.e)
    /\ inbox' = IF Head(inbox) \in TransportErrors THEN inbox ELSE Tail(inbox)
    /\ body' = IF Head(inbox) \in TransportErrors THEN NoWire ELSE Head(inbox)
    /\ UNCHANGED <<DefaultDialer, dials, others>>
    /\ UNCHANGED <<input, d, wire, res, ops, evt, calls, client, out>>

NextEvent ==
    \/ AsyncSubscription
    \/ Cancel
    \/ SubscriptionLoop
    \/ SubscriptionRead
    \/ ConnectionFails
    \/ SetMetadata
    \/ SetTimestamp
    \/ DeleteMetadata
    \/ Encode
    \/ MarshalMessage
    \/ UnmarshalMessage
    \/ GetEvent
    \/ NewClient
    \/ ReadEvent
    \/ PublishEvent

SpecEvent == InitEvent /\ [][NextEvent]_vars

-----------------------------------------------------------------------------
(* NewClient step by step: the shared default dialer and the connection *)

\* the program connects; the codec and the message variables are not used
InitDial ==
    /\ input = <<"dial", 0>>
    /\ d = ZeroData /\ wire = NoWire /\ res = NoRes /\ ops = <<>>
    /\ EventIdle
    /\ ClientIdle
    /\ DialerIdle

\* caller c calls NewClient(ctx, hostPort, secure, tlsDialFunc, topics), also
\* again after an earlier call returned: dialer is the pointer
\* websocket.DefaultDialer, so the assignment to dialer.NetDialTLSContext
\* writes the field of the package global
NewClientEnter(c) ==
    /\ dials[c].pc \in {"idle", "returned"}
    /\ \E secure \in BOOLEAN, tlsDialFunc \in TLSDialFuncs \cup {NoFunc} :
          IF secure /\ tlsDialFunc = NoFunc
          THEN /\ dials' = [dials EXCEPT ![c] =
                              [NoDial EXCEPT !.pc = "returned", !.secure = secure,
                                             !.err = "a TLSDialFunc must be provided in secure mode"]]
               /\ UNCHANGED DefaultDialer
          ELSE /\ dials' = [dials EXCEPT ![c] =
                              [NoDial EXCEPT !.pc = "dial", !.secure = secure,
                                             !.tlsDialFunc = tlsDialFunc]]
               /\ DefaultDialer' = IF secure
                                   THEN [DefaultDialer EXCEPT !.NetDialTLSContext = tlsDialFunc]
                                   ELSE DefaultDialer
    /\ UNCHANGED others
    /\ UNCHANGED <<input, d, wire, res, ops, evt, calls, msg, body, got, inbox, client, sub, out>>

\* the function a TLS connection made through the default dialer goes
\* through: the NetDialTLSContext the dialer holds at that moment
DialTLS == DefaultDialer.NetDialTLSContext

\* dialer.DialContext(ctx, url, nil) in the call of c: a wss url is dialed
\* with the dialer's NetDialTLSContext, a ws url with the net dialer; the dial
\* fails, or gives the connection c
NewClientDial(c) ==
    /\ dials[c].pc = "dial"
    /\ \E ok \in BOOLEAN :
          dials' = [dials EXCEPT ![c] =
                      IF ok
                      THEN [@ EXCEPT !.pc = "write", !.conn = "open",
                                     !.used = IF dials[c].secure THEN DialTLS ELSE "net"]
                      ELSE [@ EXCEPT !.pc = "returned", !.err = "dial"]]
    /\ UNCHANGED <<DefaultDialer, others>>
    /\ UNCHANGED <<input, d, wire, res, ops, evt, calls, msg, body, got, inbox, client, sub, out>>

\* what a return of NewClient with an error leaves of the call dl: the
\* connection as it is
ReturnError(dl, err) == [dl EXCEPT !.pc = "returned", !.err = err]

\* c.WriteJSON(topics) in the call of c
NewClientWriteTopics(c) ==
    /\ dials[c].pc = "write"
    /\ \E ok \in BOOLEAN :
          dials' = [dials EXCEPT ![c] =
                      IF ok THEN [@ EXCEPT !.pc = "read"] ELSE ReturnError(@, "write")]
    /\ UNCHANGED <<DefaultDialer, others>>
    /\ UNCHANGED <<input, d, wire, res, ops, evt, calls, msg, body, got, inbox, client, sub, out>>

\* c.ReadJSON(&ack) in the call of c, and the return of the *Client
NewClientReadAck(c) ==
    /\ dials[c].pc = "read"
    /\ \E ok \in BOOLEAN :
          dials' = [dials EXCEPT ![c] =
                      IF ok THEN [@ EXCEPT !.pc = "returned"] ELSE ReturnError(@, "read")]
    /\ UNCHANGED <<DefaultDialer, others>>
    /\ UNCHANGED <<input, d, wire, res, ops, evt, calls, msg, body, got, inbox, client, sub, out>>

\* code outside this package makes a TLS connection with
\* websocket.DefaultDialer
OtherDial ==
    /\ others' = others \cup {DialTLS}
    /\ UNCHANGED <<DefaultDialer, dials>>
    /\ UNCHANGED <<input, d, wire, res, ops, evt, calls, msg, body, got, inbox, client, sub, out>>

NextDial ==
    \/ \E c \in Callers : NewClientEnter(c)
    \/ \E c \in Callers : NewClientDial(c)
    \/ \E c \in Callers : NewClientWriteTopics(c)
    \/ \E c \in Callers : NewClientReadAck(c)
    \/ OtherDial

SpecDial == InitDial /\ [][NextDial]_vars

-----------------------------------------------------------------------------

\* a program that connects and subscribes: the client scenario of InitEvent
InitSubscription ==
    InitEvent /\ input[1] = "client"

NextSubscription ==
    \/ NewClient
    \/ AsyncSubscription
    \/ Cancel
    \/ SubscriptionLoop
    \/ SubscriptionRead
    \/ ConnectionFails
    \/ ReadEvent

\* the goroutine of AsyncSubscription is scheduled whenever it can run; the
\* peer, the connection and the caller owe nothing
SpecSubscription ==
    /\ InitSubscription
    /\ [][NextSubscription]_vars
    /\ WF_vars(SubscriptionLoop)
    /\ WF_vars(SubscriptionRead)

----------------------------------------------------------------------------
(* Envelopes and events: what the operations return *)

\* b is an object whose property k is the string s
HasString(b, k, str) == Kind(b) = "obj" /\ HasKey(Val(b), k) /\ Get(Val(b), k) = JStr(str)

\* b is an error envelope with a string code and a string context
IsErrorEnvelope(b) ==
    /\ HasString(b, "type", <<"e","r","r","o","r">>)
    /\ HasKey(Val(b), "code") /\ Kind(Get(Val(b), "code")) = "str"
    /\ HasKey(Val(b), "context") /\ Kind(Get(Val(b), "context")) = "str"

\* b is an envelope whose type is a string other than the three known ones
IsUnknownEnvelope(b) ==
    /\ Kind(b) = "obj"
    /\ HasKey(Val(b), "type") /\ Kind(Get(Val(b), "type")) = "str"
    /\ Val(Get(Val(b), "type")) \notin {DataMessageType, <<"a","c","k">>, <<"e","r","r","o","r">>}

\* C5: decoding an error envelope with string code and context, by
\* DataMessage.UnmarshalJSON or within Client.ReadEvent, returns an
\* ErrorMessage that carries exactly the two strings; no message is decoded,
\* and ReadEvent returns an empty topic and an empty Event with it.
C5_ErrorEnvelopeIsError ==
    (got.op \in {"UnmarshalJSON", "ReadEvent"} /\ IsErrorEnvelope(body))
        => /\ got.st = "err"
           /\ got.err[1] = "ErrorMessage"
           /\ got.err[2].Code = Val(Get(Val(body), "code"))
           /\ got.err[2].Context = Val(Get(Val(body), "context"))
           /\ got.topic = <<>>
           /\ got.evt = ZeroEvent
           /\ msg = ZeroDataMessage

\* ReadEvent has read an error envelope whose code and context differ
C5_Witness ==
    /\ got.op = "ReadEvent"
    /\ IsErrorEnvelope(body)
    /\ Val(Get(Val(body), "code")) = <<"d","e","s","e","r">>
    /\ Val(Get(Val(body), "context")) = <<"b","a","d">>

\* C6: decoding an envelope whose type string is none of data-message, ack
\* and error returns a DataMessageUnknownTypeError that carries that string,
\* and neither a topic nor a payload is decoded.
C6_UnknownTypeIsError ==
    (got.op \in {"UnmarshalJSON", "ReadEvent"} /\ IsUnknownEnvelope(body))
        => /\ got.st = "err"
           /\ got.err[1] = "DataMessageUnknownTypeError"
           /\ got.err[2].TypeValue = Val(Get(Val(body), "type"))
           /\ msg = ZeroDataMessage

\* an envelope of type ping that has a topic was decoded
C6_Witness ==
    /\ got.op = "UnmarshalJSON"
    /\ HasString(body, "type", Ping)
    /\ HasKey(Val(body), "topic")

\* C7: NewClient returns a Client only when the first message it read has
\* the type ack; after any other first message it returns an error and no
\* Client.
C7_HandshakeMustBeAck ==
    (got.op = "NewClient" /\ body # NoWire /\ ~HasString(body, "type", <<"a","c","k">>))
        => client.isnil /\ got.st = "err"

\* the count 1 as a Data
CountOne ==
    [DataType |-> "count", DataValue |-> <<"uint64", [neg |-> FALSE, dig |-> <<1>>]>>]

\* the elements of the vector a message carries
Payload(m) == Val(m.Data[2].DataValue).v

C9_MetadataOnlyWhenPresent ==
    got.op = "Encode"
        => /\ (Len(Payload(msg)) = 4) <=> (Len(evt.Metadata.v) >= 1)
           /\ (Len(evt.Metadata.v) = 0) => (Len(Payload(msg)) = 3)

\* an Event whose metadata was set and deleted again, so that its slice is
\* empty and not nil, was encoded
C9_Witness ==
    /\ got.op = "Encode"
    /\ \E i \in 1..Len(calls) : calls[i] = "SetMetadata"
    /\ \E i \in 1..Len(calls) : calls[i] = "DeleteMetadata"
    /\ Len(evt.Metadata.v) = 0
    /\ ~evt.Metadata.isnil

\* the payload of m is not a vector of three elements, or one of its first
\* two elements is not the count 1
NotAnEvent(m) ==
    \/ m.Data[2].DataType # "vector"
    \/ Kind(m.Data[2].DataValue) # "[]Data"
    \/ Len(Payload(m)) # 3
    \/ Payload(m)[1] # CountOne
    \/ Payload(m)[2] # CountOne

\* C10: GetEvent returns an error, with an empty topic and an empty Event,
\* when the payload is not a vector of exactly three elements or when its
\* element 0 or its element 1 is not a count of value 1.
C10_GetEventRejects ==
    (got.op = "GetEvent" /\ NotAnEvent(msg))
        => /\ got.st = "err"
           /\ got.err # Nil
           /\ got.topic = <<>>
           /\ got.evt = ZeroEvent

\* GetEvent was called on a vector of three elements whose format number is
\* a count other than 1
C10_Witness ==
    /\ got.op = "GetEvent"
    /\ msg.Data[2].DataType = "vector"
    /\ Kind(msg.Data[2].DataValue) = "[]Data"
    /\ Len(Payload(msg)) = 3
    /\ Payload(msg)[1].DataType = "count"
    /\ Payload(msg)[1] # CountOne
    /\ Payload(msg)[2] = CountOne

\* the payload of m is [count 1, count 1, vector(string name, vector args)]
WellFormedEvent(m) ==
    /\ m.Data # Nil
    /\ ~NotAnEvent(m)
    /\ Payload(m)[3].DataType = "vector"
    /\ Kind(Payload(m)[3].DataValue) = "[]Data"
    /\ Len(Val(Payload(m)[3].DataValue).v) = 2
    /\ Val(Payload(m)[3].DataValue).v[1].DataType = "string"
    /\ Kind(Val(Payload(m)[3].DataValue).v[1].DataValue) = "string"
    /\ Val(Payload(m)[3].DataValue).v[2].DataType = "vector"
    /\ Kind(Val(Payload(m)[3].DataValue).v[2].DataValue) = "[]Data"

\* the wire form of the arguments of the data-message b
WireArguments(b) ==
    LET elements(w) == Val(Get(Val(w), "data"))
    IN  elements(elements(elements(b)[3])[2])

\* C11: GetEvent on a well-formed data-message, called directly or by
\* ReadEvent, succeeds and returns the topic of the message, the name, and
\* the arguments of the message in order, kind by kind as they were on the
\* wire, and no metadata.
C11_GetEventWellFormed ==
    (got.op \in {"GetEvent", "ReadEvent"} /\ WellFormedEvent(msg))
        => /\ got.st = "ok"
           /\ got.err = Nil
           /\ got.topic = msg.Topic
           /\ got.evt.Name = Val(Val(Payload(msg)[3].DataValue).v[1].DataValue)
           /\ got.evt.Arguments.v = Val(Val(Payload(msg)[3].DataValue).v[2].DataValue).v
           /\ Len(got.evt.Metadata.v) = 0
           /\ body # NoWire =>
                  /\ got.topic = Val(Get(Val(body), "topic"))
                  /\ Len(got.evt.Arguments.v) = Len(WireArguments(body))
                  /\ \A i \in 1..Len(got.evt.Arguments.v) :
                        TypeString(got.evt.Arguments.v[i].DataType) =
                            Val(Get(Val(WireArguments(body)[i]), "@data-type"))

\* GetEvent has returned the event ping(7) of a decoded envelope
C11_Witness ==
    /\ got.op = "GetEvent"
    /\ body # NoWire
    /\ got.st = "ok"
    /\ got.topic = <<"/", "t">>
    /\ got.evt.Name = Ping
    /\ Len(got.evt.Arguments.v) = 1
    /\ got.evt.Arguments.v[1].DataType = "count"

\* the payload of m is [count 1, count 1, vector(string name)]: a signature
\* of the name alone
NameOnlyEvent(m) ==
    /\ m.Data # Nil
    /\ ~NotAnEvent(m)
    /\ Payload(m)[3].DataType = "vector"
    /\ Kind(Payload(m)[3].DataValue) = "[]Data"
    /\ Len(Val(Payload(m)[3].DataValue).v) = 1
    /\ Val(Payload(m)[3].DataValue).v[1].DataType = "string"
    /\ Kind(Val(Payload(m)[3].DataValue).v[1].DataValue) = "string"

\* C12, as stated: GetEvent on a payload whose signature vector holds the
\* event name alone succeeds and returns an Event of that name, without
\* arguments and without metadata.
C12_NameOnlyIsValid ==
    (got.op = "GetEvent" /\ NameOnlyEvent(msg))
        => /\ got.st = "ok"
           /\ got.evt.Name = Val(Val(Payload(msg)[3].DataValue).v[1].DataValue)
           /\ Len(got.evt.Arguments.v) = 0
           /\ Len(got.evt.Metadata.v) = 0

\* C12, amended: GetEvent on a payload whose signature vector holds the
\* event name alone returns an error, with an empty topic and an empty Event.
C12_NameOnlyIsRejected ==
    (got.op = "GetEvent" /\ NameOnlyEvent(msg))
        => /\ got.st = "err"
           /\ got.err # Nil
           /\ got.topic = <<>>
           /\ got.evt = ZeroEvent

\* GetEvent was called on the decoded payload [1, 1, vector("ping")] of a
\* message with a topic
C12_Witness ==
    /\ got.op = "GetEvent"
    /\ NameOnlyEvent(msg)
    /\ msg.Topic # <<>>
    /\ Val(Val(Payload(msg)[3].DataValue).v[1].DataValue) = Ping

\* the entries of the metadata slice md whose id is not id, in order
OtherEntries(md, id) ==
    LET other(m) == m.ID # [neg |-> FALSE, dig |-> <<id>>]
    IN  SelectSeq(md.v, other)

\* C13: a call e.SetTimestamp(t) leaves e with at least one metadata entry of
\* id 1, every entry of id 1 holding Timestamp(t), and the entries of other
\* ids as they were, whatever metadata e had before, none included.
C13_SetTimestampAddsOrReplaces ==
    [][ (got'.op = "SetTimestamp" /\ calls' # calls)
            => \E t \in Times :
                  /\ \E i \in 1..Len(evt'.Metadata.v) :
                        evt'.Metadata.v[i].ID = [neg |-> FALSE, dig |-> <<1>>]
                  /\ \A i \in 1..Len(evt'.Metadata.v) :
                        evt'.Metadata.v[i].ID = [neg |-> FALSE, dig |-> <<1>>]
                            => evt'.Metadata.v[i].Value =
                                   [DataType |-> "timestamp", DataValue |-> <<"Time", t>>]
                  /\ OtherEntries(evt'.Metadata, 1) = OtherEntries(evt.Metadata, 1) ]_vars

\* C14: with an EventHandler and no ErrorHandler, no failed read makes the
\* goroutine of AsyncSubscription panic: the loop ends or reads on.
C14_NilErrorHandlerNoCrash ==
    (sub.hm /\ ~sub.eh) => sub.pc # "panic"

----------------------------------------------------------------------------
(* Timespans *)

\* C15: a duration that is encoded and decoded again is the same number of
\* nanoseconds, whatever the duration is.
C15_TimespanRoundTrip ==
    (/\ input[1] = "data"
     /\ input[2].DataType = "timespan"
     /\ ops = <<"MarshalJSON", "UnmarshalJSON">>)
        => /\ res.st = "ok"
           /\ d.DataType = "timespan"
           /\ d.DataValue = input[2].DataValue

\* timespan strings and the nanoseconds they stand for: the magnitude times
\* the unit, cut toward zero
TimespanValues ==
    { <<<<"1","n","s">>, [neg |-> FALSE, dig |-> <<1>>]>>,
      <<<<"1","0","n","s">>, [neg |-> FALSE, dig |-> <<1,0>>]>>,
      <<<<"1",".","5","n","s">>, [neg |-> FALSE, dig |-> <<1>>]>>,
      <<<<"1","m","s">>, [neg |-> FALSE, dig |-> <<1,0,0,0,0,0,0>>]>>,
      <<<<"1",".","5","m","s">>, [neg |-> FALSE, dig |-> <<1,5,0,0,0,0,0>>]>>,
      <<<<"1","s">>, [neg |-> FALSE, dig |-> <<1,0,0,0,0,0,0,0,0,0>>]>>,
      <<<<"1",".","5","s">>, [neg |-> FALSE, dig |-> <<1,5,0,0,0,0,0,0,0,0>>]>>,
      <<<<"1","m","i","n">>, [neg |-> FALSE, dig |-> <<6,0,0,0,0,0,0,0,0,0,0>>]>>,
      <<<<"1",".","5","m","i","n">>, [neg |-> FALSE, dig |-> <<9,0,0,0,0,0,0,0,0,0,0>>]>>,
      <<<<"1","h">>, [neg |-> FALSE, dig |-> <<3,6,0,0,0,0,0,0,0,0,0,0,0>>]>>,
      <<<<"-","1",".","5","h">>, [neg |-> TRUE, dig |-> <<5,4,0,0,0,0,0,0,0,0,0,0,0>>]>>,
      <<<<"1","d">>, [neg |-> FALSE, dig |-> <<8,6,4,0,0,0,0,0,0,0,0,0,0,0>>]>>,
      <<<<"1",".","5","d">>, [neg |-> FALSE, dig |-> <<1,2,9,6,0,0,0,0,0,0,0,0,0,0,0>>]>>,
      <<<<"1",".","2","3","4","5","6","7","d">>, [neg |-> FALSE, dig |-> <<1,0,6,6,6,6,5,8,8,8,0,0,0,0,0>>]>>,
      <<<<"0",".","0","0","0","0","0","0","0","0","0","0","0","0","0","1","d">>, [neg |-> FALSE, dig |-> <<0>>]>> }

\* C16: decoding a timespan string of a whole or fractional magnitude and one
\* of the units ns, ms, s, min, h, d succeeds with the magnitude times the
\* unit in nanoseconds, cut toward zero: 1d is 24h, 1.234567d is
\* 106666588800000 ns.
C16_TimespanDecode ==
    \A p \in TimespanValues :
        (/\ input = <<"wire", <<"obj", { <<"@data-type",
                                           <<"str", <<"t","i","m","e","s","p","a","n">>>>>>,
                                         <<"data", <<"str", p[1]>>>> }>>>>
         /\ ops = <<"UnmarshalJSON">>)
            => /\ res.st = "ok"
               /\ d = [DataType |-> "timespan", DataValue |-> <<"Duration", p[2]>>]

\* 1.234567d and 1.5min were decoded
C16_Witness ==
    /\ ops = <<"UnmarshalJSON">>
    /\ input[1] = "wire"
    /\ Kind(input[2]) = "obj"
    /\ HasKey(Val(input[2]), "data")
    /\ Get(Val(input[2]), "data") = <<"str", <<"1",".","2","3","4","5","6","7","d">>>>
    /\ res.st = "ok"

\* the digit sequence ds is a smaller number than lim
Below(ds, lim) == DigitsLeq(ds, lim) /\ ds # lim

\* the unit formatTimespan is to print dur in
UnitSuffix(dur) ==
    IF Below(dur.dig, <<1,0,0,0,0,0,0>>) THEN <<"n","s">>
    ELSE IF Below(dur.dig, <<1,0,0,0,0,0,0,0,0,0>>) THEN <<"m","s">>
    ELSE IF Below(dur.dig, <<6,0,0,0,0,0,0,0,0,0,0>>) THEN <<"s">>
    ELSE IF Below(dur.dig, <<3,6,0,0,0,0,0,0,0,0,0,0,0>>) THEN <<"m","i","n">>
    ELSE IF Below(dur.dig, <<8,6,4,0,0,0,0,0,0,0,0,0,0,0>>) THEN <<"h">>
    ELSE <<"d">>

\* mag is a decimal number of at most four fractional digits that ends
\* neither in a fractional zero nor in the decimal point
IsTrimmedMagnitude(mag) ==
    LET digs == IF Len(mag) > 0 /\ mag[1] = "-" THEN Tail(mag) ELSE mag
        dots == {i \in 1..Len(digs) : digs[i] = "."}
    IN  /\ Len(digs) > 0
        /\ \A i \in 1..Len(digs) : digs[i] = "." \/ digs[i] \in
               {"0", "1", "2", "3", "4", "5", "6", "7", "8", "9"}
        /\ Cardinality(dots) <= 1
        /\ digs[1] # "."
        /\ digs[Len(digs)] # "."
        /\ \A i \in dots : Len(digs) - i <= 4 /\ digs[Len(digs)] # "0"

\* durations and the strings they are printed as
TimespanStrings ==
    { <<[neg |-> FALSE, dig |-> <<0>>], <<"0","n","s">>>>,
      <<[neg |-> FALSE, dig |-> <<1,0>>], <<"1","0","n","s">>>>,
      <<[neg |-> TRUE, dig |-> <<1,0>>], <<"-","1","0","n","s">>>>,
      <<[neg |-> FALSE, dig |-> <<9,9,9,9,9,9>>], <<"9","9","9","9","9","9","n","s">>>>,
      <<[neg |-> FALSE, dig |-> <<1,0,0,0,0,0,0>>], <<"1","m","s">>>>,
      <<[neg |-> FALSE, dig |-> <<1,2,3,4,5,6,7>>], <<"1",".","2","3","4","6","m","s">>>>,
      <<[neg |-> FALSE, dig |-> <<1,5,0,0,0,0,0>>], <<"1",".","5","m","s">>>>,
      <<[neg |-> TRUE, dig |-> <<5,4,0,0,0,0,0,0,0,0,0,0,0>>], <<"-","1",".","5","h">>>>,
      <<[neg |-> FALSE, dig |-> <<8,6,3,9,9,9,9,9,9,9,9,9,9,9>>], <<"2","4","h">>>>,
      <<[neg |-> FALSE, dig |-> <<8,6,4,0,0,0,0,0,0,0,0,0,0,0>>], <<"1","d">>>>,
      <<[neg |-> FALSE, dig |-> <<1,2,9,6,0,0,0,0,0,0,0,0,0,0,0>>], <<"1",".","5","d">>>> }

\* C17: an encoded timespan ends in the unit its absolute duration selects
\* (ns below 1ms, ms below 1s, s below 1min, min below 1h, h below 24h, d
\* otherwise), after a magnitude of at most four fractional digits without a
\* trailing fractional zero or decimal point: 10 ns is 10ns, 5400000000000 ns
\* is 1.5h, 0 is 0ns.
C17_TimespanEncode ==
    (/\ input[1] = "data"
     /\ input[2].DataType = "timespan"
     /\ ops = <<"MarshalJSON">>)
        => /\ res.st = "ok"
           /\ Get(Val(wire), "@data-type") = <<"str", <<"t","i","m","e","s","p","a","n">>>>
           /\ Kind(Get(Val(wire), "data")) = "str"
           /\ LET text == Val(Get(Val(wire), "data"))
                  suffix == UnitSuffix(input[2].DataValue[2])
              IN  /\ Len(text) > Len(suffix)
                  /\ SubSeq(text, Len(text) - Len(suffix) + 1, Len(text)) = suffix
                  /\ IsTrimmedMagnitude(SubSeq(text, 1, Len(text) - Len(suffix)))
                  /\ \A p \in TimespanStrings :
                        input[2].DataValue[2] = p[1] => text = p[2]

\* 1234567 ns was encoded, as 1.2346ms
C17_Witness ==
    /\ ops = <<"MarshalJSON">>
    /\ input = <<"data", [DataType |-> "timespan",
                          DataValue |-> <<"Duration", [neg |-> FALSE, dig |-> <<1,2,3,4,5,6,7>>]>>]>>
    /\ res.st = "ok"

----------------------------------------------------------------------------
(* Timestamps *)

\* days from 0001-01-01 to the date y-mo-dd of the proleptic Gregorian calendar
DaysSinceEpoch(y, mo, dd) ==
    LET RECURSIVE before(_)
        before(m) == IF m = 1 THEN 0 ELSE before(m - 1) + DaysIn(m - 1, y)
    IN  365 * (y - 1) + (y - 1) \div 4 - (y - 1) \div 100 + (y - 1) \div 400
            + before(mo) + dd - 1

\* the instant t stands for, the zone offset taken off its wall clock: days
\* since 0001-01-01 UTC, minute of that day, second, nanosecond
Instant(t) ==
    LET minutes == t.h * 60 + t.mi - t.off
    IN  <<DaysSinceEpoch(t.Y, t.Mo, t.D) + minutes \div 1440, minutes % 1440, t.s, t.ns>>

\* the instant with its part below a millisecond dropped
TruncateMilli(i) == <<i[1], i[2], i[3], (i[4] \div 1000000) * 1000000>>

\* C18: a timestamp given in any time zone, encoded and decoded again, is the
\* same instant with the part below a millisecond dropped; at millisecond
\* precision it is the same instant.
C18_TimestampRoundTrip ==
    (/\ input[1] = "data"
     /\ input[2].DataType = "timestamp"
     /\ ops = <<"MarshalJSON", "UnmarshalJSON">>)
        => /\ res.st = "ok"
           /\ d.DataType = "timestamp"
           /\ Kind(d.DataValue) = "Time"
           /\ Instant(Val(d.DataValue)) = TruncateMilli(Instant(Val(input[2].DataValue)))

----------------------------------------------------------------------------
(* Counts and integers *)

\* the first position of s holding a character of cs, 0 when there is none
FirstOf(s, cs) ==
    IF \E i \in 1..Len(s) : s[i] \in cs
    THEN Min({i \in 1..Len(s) : s[i] \in cs})
    ELSE 0

\* the JSON number literal s read as sign, digits and decimal scale: its value
\* is the digits times ten to the scale
Numeral(s) ==
    LET neg == s[1] = "-"
        mag == IF neg THEN Tail(s) ELSE s
        e == FirstOf(mag, {"e", "E"})
        mant == IF e = 0 THEN mag ELSE SubSeq(mag, 1, e - 1)
        expo == IF e = 0 THEN <<>> ELSE SubSeq(mag, e + 1, Len(mag))
        dot == FirstOf(mant, {"."})
        ip == IF dot = 0 THEN mant ELSE SubSeq(mant, 1, dot - 1)
        fp == IF dot = 0 THEN <<>> ELSE SubSeq(mant, dot + 1, Len(mant))
        signed == Len(expo) > 0 /\ expo[1] \in {"+", "-"}
        k == DigitsNat(ToDigits(IF signed THEN Tail(expo) ELSE expo))
    IN  [neg |-> neg,
         digits |-> ToDigits(ip \o fp),
         scale |-> (IF signed /\ expo[1] = "-" THEN -k ELSE k) - Len(fp)]

\* the value of the literal is a whole number
IsIntegral(s) ==
    LET n == Numeral(s)
        padded == Zeros(-n.scale) \o n.digits
    IN  n.scale >= 0
        \/ \A i \in (Len(padded) + n.scale + 1)..Len(padded) : padded[i] = 0

\* the whole number an integral literal stands for
IntegerOf(s) ==
    LET n == Numeral(s)
    IN  MkInt(n.neg, ShiftDigits(n.digits, n.scale))

InUint64(i) == ~i.neg /\ DigitsLeq(i.dig, MaxUint64)

InInt64(i) == DigitsLeq(i.dig, IF i.neg THEN MinInt64Magnitude ELSE MaxInt64)

\* the literal is written as decimal digits only, after a minus sign if signed
IsIntegerLiteral(s, signed) ==
    IF signed /\ s[1] = "-" THEN Len(s) > 1 /\ AllDigits(Tail(s)) ELSE AllDigits(s)

\* the document given is a value of kind t whose payload is a JSON number,
\* and it was decoded
DecodedNumber(t) ==
    /\ input[1] = "wire"
    /\ Kind(input[2]) = "obj"
    /\ HasKey(Val(input[2]), "@data-type")
    /\ HasKey(Val(input[2]), "data")
    /\ Get(Val(input[2]), "@data-type") = JStr(t)
    /\ Kind(Get(Val(input[2]), "data")) = "num"
    /\ ops = <<"UnmarshalJSON">>

\* the number literal of the document given
Literal == Val(Get(Val(input[2]), "data"))

\* C19 as stated: a count decodes exactly when its number is integral and in
\* [0, 2^64-1], an integer exactly when its number is integral and in
\* [-2^63, 2^63-1]; the value decoded is the wire number, every other number is
\* an error.
C19_IntegralNumbersDecode ==
    /\ DecodedNumber(<<"c","o","u","n","t">>)
          => /\ res.st = "ok" <=> IsIntegral(Literal) /\ InUint64(IntegerOf(Literal))
             /\ res.st = "ok" => d = Count(IntegerOf(Literal))
    /\ DecodedNumber(<<"i","n","t","e","g","e","r">>)
          => /\ res.st = "ok" <=> IsIntegral(Literal) /\ InInt64(IntegerOf(Literal))
             /\ res.st = "ok" => d = Integer(IntegerOf(Literal))

\* C19: a count decodes exactly when its number is written as decimal digits
\* only and is at most 2^64-1, an integer exactly when its number is written
\* as decimal digits after an optional minus sign and is in [-2^63, 2^63-1];
\* the value decoded is the wire number. Every other number is an error that
\* leaves no value: a negative count, -0 as a count, a number with a fraction
\* or an exponent, a number beyond the range (18446744073709551615 as an
\* integer).
C19_IntegerLiteralsDecode ==
    /\ DecodedNumber(<<"c","o","u","n","t">>)
          => /\ res.st = "ok" <=> /\ IsIntegerLiteral(Literal, FALSE)
                                  /\ InUint64(IntegerOf(Literal))
             /\ res.st = "ok" => d = Count(IntegerOf(Literal))
             /\ res.st # "ok" => res.st = "err" /\ d.DataValue = Nil
    /\ DecodedNumber(<<"i","n","t","e","g","e","r">>)
          => /\ res.st = "ok" <=> /\ IsIntegerLiteral(Literal, TRUE)
                                  /\ InInt64(IntegerOf(Literal))
             /\ res.st = "ok" => d = Integer(IntegerOf(Literal))
             /\ res.st # "ok" => res.st = "err" /\ d.DataValue = Nil

\* the count 18446744073709551616, one beyond the range, was refused
C19_Witness ==
    /\ DecodedNumber(<<"c","o","u","n","t">>)
    /\ Literal = <<"1","8","4","4","6","7","4","4","0","7","3","7","0","9","5","5","1","6","1","6">>
    /\ res.st = "err"

----------------------------------------------------------------------------
(* HTML characters in the JSON text *)

\* the HTML characters of the name and of the string arguments of e
HTMLChars(e) ==
    LET of(s) == {s[i] : i \in 1..Len(s)} \cap {"<", ">", "&"}
        args == e.Arguments.v
    IN  of(e.Name)
            \cup UNION {of(Val(args[i].DataValue)) :
                           i \in {k \in 1..Len(args) : args[k].DataType = "string"}}

\* text holds one of the escapes <, >, &
HasHTMLEscape(text) ==
    \E i \in 1..(Len(text) - 5) :
        SubSeq(text, i, i + 5) \in { <<"\\","u","0","0","3","c">>,
                                     <<"\\","u","0","0","3","e">>,
                                     <<"\\","u","0","0","2","6">> }

\* text holds every HTML character of e as it is, and no escape of one
LiteralHTML(e, text) ==
    /\ ~HasHTMLEscape(text)
    /\ \A c \in HTMLChars(e) : \E i \in 1..Len(text) : text[i] = c

\* C20: the bytes DataMessage.MarshalJSON returns for an encoded event, and
\* the bytes PublishEvent hands to the connection, hold the characters <, >
\* and & of the event's name and string arguments as they are, never as
\* <, > or &.
C20_NoHTMLEscape ==
    /\ (got.op = "MarshalJSON" /\ got.st = "ok") => LiteralHTML(evt, out)
    /\ (got.op = "PublishEvent" /\ got.st = "ok") => LiteralHTML(evt, out)

----------------------------------------------------------------------------
(* Failed decodes *)

\* C21: a decode that returns an error leaves its destination as it was:
\* the Data handed to Data.UnmarshalJSON (a new one or the one held) keeps
\* its tag and payload, and the new DataMessage handed to
\* DataMessage.UnmarshalJSON keeps its type, topic and payload.
C21_FailedDecodeLeavesDestination ==
    [][ /\ (ops' = Append(ops, "UnmarshalJSON") /\ res'.st = "err")
            => d' \in {ZeroData, d}
        /\ (got.op # "UnmarshalJSON" /\ got'.op = "UnmarshalJSON" /\ got'.st = "err")
            => msg' = ZeroDataMessage ]_vars

----------------------------------------------------------------------------
(* Timespan strings that are refused *)

\* the units of a timespan string
TimespanUnits ==
    { <<"n","s">>, <<"m","s">>, <<"s">>, <<"m","i","n">>, <<"h">>, <<"d">> }

\* s is one number: an optional sign, then digits with at most one decimal
\* point among them
IsOneNumber(s) ==
    LET mag == IF Len(s) > 0 /\ s[1] \in {"+", "-"} THEN Tail(s) ELSE s
    IN  /\ \A i \in 1..Len(mag) : IsNumChar(mag[i])
        /\ \E i \in 1..Len(mag) : mag[i] # "."
        /\ Cardinality({i \in 1..Len(mag) : mag[i] = "."}) <= 1

\* s is a single number followed by exactly one unit
IsNumberAndUnit(s) ==
    \E u \in TimespanUnits :
        /\ HasSuffix(s, u)
        /\ IsOneNumber(SubSeq(s, 1, Len(s) - Len(u)))

\* C22: a timespan string that is not a single number followed by one of
\* ns, ms, s, min, h, d is refused: another unit (1us, 1m), several groups
\* (1h30m), no unit (0).
C22_TimespanRejectsOtherForms ==
    (/\ input[1] = "wire"
     /\ input[2] \in WireTimespans
     /\ ~IsNumberAndUnit(Val(Get(Val(input[2]), "data")))
     /\ ops = <<"UnmarshalJSON">>)
        => res.st = "err"

----------------------------------------------------------------------------
(* Metadata of a received event *)

\* the elements of the signature vector of m
Signature(m) == Val(Payload(m)[3].DataValue).v

\* the payload of m is [count 1, count 1, vector(string name, vector args,
\* a third element, ...)]
HasThirdElement(m) ==
    /\ m.Data # Nil
    /\ ~NotAnEvent(m)
    /\ Payload(m)[3].DataType = "vector"
    /\ Kind(Payload(m)[3].DataValue) = "[]Data"
    /\ Len(Signature(m)) > 2
    /\ Signature(m)[1].DataType = "string"
    /\ Kind(Signature(m)[1].DataValue) = "string"
    /\ Signature(m)[2].DataType = "vector"
    /\ Kind(Signature(m)[2].DataValue) = "[]Data"

\* x is a vector of two elements, the first of them a count
IsMetaEntry(x) ==
    /\ x.DataType = "vector"
    /\ Kind(x.DataValue) = "[]Data"
    /\ Len(Val(x.DataValue).v) = 2
    /\ Val(x.DataValue).v[1].DataType = "count"
    /\ Kind(Val(x.DataValue).v[1].DataValue) = "uint64"

\* x is a vector of metadata entries
IsMetaVector(x) ==
    /\ x.DataType = "vector"
    /\ Kind(x.DataValue) = "[]Data"
    /\ \A i \in 1..Len(Val(x.DataValue).v) : IsMetaEntry(Val(x.DataValue).v[i])

\* C23: when the signature has a third element, GetEvent succeeds exactly
\* when that element is a vector of 2-element vectors (count id, value), and
\* the Event it returns carries one metadata entry per vector, with the same
\* id and the same value, in the same order; otherwise it returns an error
\* and an empty Event.
C23_MetadataExtracted ==
    (got.op = "GetEvent" /\ HasThirdElement(msg))
        => IF IsMetaVector(Signature(msg)[3])
           THEN LET entries == Val(Signature(msg)[3].DataValue).v
                IN  /\ got.st = "ok"
                    /\ got.err = Nil
                    /\ got.topic = msg.Topic
                    /\ Len(got.evt.Metadata.v) = Len(entries)
                    /\ \A i \in 1..Len(entries) :
                          /\ got.evt.Metadata.v[i].ID = Val(Val(entries[i].DataValue).v[1].DataValue)
                          /\ got.evt.Metadata.v[i].Value = Val(entries[i].DataValue).v[2]
           ELSE /\ got.st = "err"
                /\ got.err # Nil
                /\ got.evt = ZeroEvent

\* GetEvent has returned an Event with the two metadata entries of the
\* message, id 2 before id 1
C23_Witness ==
    /\ got.op = "GetEvent"
    /\ HasThirdElement(msg)
    /\ got.st = "ok"
    /\ Len(got.evt.Metadata.v) = 2
    /\ got.evt.Metadata.v[1].ID = [neg |-> FALSE, dig |-> <<2>>]
    /\ got.evt.Metadata.v[2].ID = [neg |-> FALSE, dig |-> <<1>>]

----------------------------------------------------------------------------
(* Encode and GetEvent *)

\* C26: GetEvent applied to the data-message e.Encode(topic) returned
\* succeeds and returns that topic and an Event with the name, the arguments
\* in order and the metadata entries in order of e, whatever e holds.
C26_EncodeThenGetEvent ==
    (input[1] = "event" /\ got.op = "GetEvent" /\ body = NoWire)
        => /\ got.st = "ok"
           /\ got.topic = msg.Topic
           /\ got.evt.Name = evt.Name
           /\ got.evt.Arguments.v = evt.Arguments.v
           /\ got.evt.Metadata.v = evt.Metadata.v

----------------------------------------------------------------------------
(* The loop of AsyncSubscription *)

\* broker.ReadEvent() returns to the loop in this step
ReadReturns == sub.pc = "read" /\ sub'.pc # "read"

\* err ends the loop silently: a normal close, or a closed connection
IsQuietEnd(err) ==
    \/ Kind(err) = "*websocket.CloseError" /\ Val(err).Code = 1000
    \/ Kind(err) = "*net.OpError" /\ Val(err).Err = "use of closed network connection"

\* C24: a read that fails with a normal websocket close or with "use of
\* closed network connection" ends the loop and the ErrorHandler is not
\* called; a read that fails with another websocket close error is handed to
\* the ErrorHandler once and the loop ends; after the loop has ended no
\* handler is called.
C24_CloseEndsLoop ==
    [][ /\ (ReadReturns /\ got'.err # Nil /\ IsQuietEnd(got'.err))
            => /\ sub'.pc = "done"
               /\ sub'.turn = <<>>
               /\ sub'.reported = sub.reported
               /\ sub'.handled = sub.handled
        /\ (ReadReturns /\ got'.err # Nil /\ Kind(got'.err) = "*websocket.CloseError"
              /\ Val(got'.err).Code # 1000)
            => /\ sub'.pc = "done"
               /\ sub'.turn = << <<"eh", got'.err>> >>
        /\ sub.pc = "done" => sub' = sub ]_vars

\* C27: once the context is cancelled no handler is called, also when the
\* read the loop is waiting in returns a message or an error afterwards.
C27_NoHandlerAfterCancel ==
    [][ (sub.ctx = "done" /\ ReadReturns) => sub'.turn = <<>> /\ sub'.pc # "panic" ]_vars

\* C28: after the context is cancelled the goroutine of AsyncSubscription
\* ends, also when the peer sends nothing more and the connection stays open.
C28_CancelEndsGoroutine ==
    (sub.ctx = "done") ~> (sub.pc \in {"done", "panic"})

\* C30: in every turn of the loop of AsyncSubscription, a message for which
\* ReadEvent succeeds is taken from the connection in the order of arrival and
\* passed to the EventHandler once, and a read that fails with something
\* other than a websocket close error or "use of closed network connection"
\* is passed to the ErrorHandler once, after which the loop takes its next
\* turn.
C30_EveryReadHandled ==
    [][ ReadReturns =>
          /\ (got'.st = "ok") =>
                /\ sub'.turn = << <<"hm", got'.topic, got'.evt>> >>
                /\ sub'.handled = sub.handled + 1
                /\ body' = Head(inbox)
                /\ inbox' = Tail(inbox)
                /\ sub'.pc = "loop"
          /\ ( /\ got'.st = "err"
               /\ Kind(got'.err) # "*websocket.CloseError"
               /\ ~IsQuietEnd(got'.err) ) =>
                /\ sub'.turn = << <<"eh", got'.err>> >>
                /\ sub'.reported = got'.err
                /\ sub'.pc = "loop" ]_vars

\* C25: NewClient keeps no process-wide state: whatever NewClient calls were
\* made, websocket.DefaultDialer is as the library declares it, another user
\* of the default dialer makes its TLS connections with no dial function of
\* a NewClient call, and every secure connection of a NewClient call was
\* dialed with the function passed to that call.
C25_NoSharedDialerState ==
    /\ DefaultDialer.NetDialTLSContext = NoFunc
    /\ others \subseteq {NoFunc}
    /\ \A c \in Callers :
          (dials[c].secure /\ dials[c].conn # "none")
              => dials[c].used = dials[c].tlsDialFunc

\* C29: when NewClient has returned an error after the dial succeeded, the
\* dialed connection is closed.
C29_FailedNewClientClosesConn ==
    \A c \in Callers :
        (dials[c].pc = "returned" /\ dials[c].err # "nil") => dials[c].conn # "open"

====
